---- MODULE Spec2Model ----
(***************************************************************************)
(* State-machine model of the yitam-mcp streamable-HTTP transports:        *)
(*   - the inline-session transport of src/core/server/yitam-tools.ts      *)
(*     (specification Spec),                                               *)
(*   - the SessionManager of src/core/transport/session-manager.ts         *)
(*     (specification SpecSM),                                             *)
(*   - the SessionManager-based transport of                               *)
(*     src/core/transport/http-transport.ts (specification SpecHT).        *)
(*                                                                         *)
(* Strings that the code inspects character-wise (paths, origins) are      *)
(* sequences of one-character strings.  Session ids are drawn fresh from   *)
(* IdName (crypto.randomBytes(16) never repeats an id).  One clock tick is *)
(* an abstract unit of Date.now().                                         *)
(***************************************************************************)
EXTENDS Integers, Sequences, FiniteSets, TLC

\* ---------------------------------------------------------------- bounds
MaxReq == 3          \* HTTP exchanges accepted in one run
MaxTime == 2         \* clock ticks in one run
MaxSuspended == 1    \* handlers suspended on an await at one time
MaxSM == 2           \* sessions created, and streams registered, in a SessionManager
MaxSend == 1         \* calls of sendMessageToClient in one run

\* ------------------------------------------------------ program constants
SessionTimeout == 1  \* options.sessionTimeoutMs, in clock ticks
SMTimeout == 1       \* SessionManager.sessionTimeoutMs, in clock ticks
MaxResults == 20     \* config.maxResults
DefaultLimit == 10   \* config.defaultLimit
MinScoreThreshold == 70  \* config.minScoreThreshold, in hundredths

MCP_ENDPOINT == <<"/", "m", "c", "p">>

ParseError == -32700
InvalidRequest == -32600
MethodNotFound == -32601
InternalError == -32603

\* ------------------------------------------------------------ input sets
IdName == <<"s1", "s2", "s3", "s4", "s5">>

Paths == {MCP_ENDPOINT, MCP_ENDPOINT \o <<"x">>, <<"/", "x">>}

\* req.headers.origin: <<>> is "no Origin header"
NoOrigin == <<>>
Origins == {NoOrigin, <<"a">>, <<"a", "b">>}
\* the origins of the session-lifecycle specification, with allow-list ["a"]
LifeOrigins == {NoOrigin, <<"b">>}
LifeAllow == << <<"a">> >>

\* options.allowedOrigins
AllowLists == {<<>>, << <<"a">> >>, << <<"a", "*">> >>, << <<"*">> >>}

JSON == "application/json"
SSE == "text/event-stream"
\* the media types an Accept header lists ({} : absent or unrelated)
Accepts == {{}, {JSON}, {SSE}, {JSON, SSE}}
LifeAccepts == {{}, {JSON}, {SSE}}

Methods == {"POST", "GET", "DELETE", "PUT"}

\* ------------------------------------------------------------- envelopes
\* the params of a callTool request: a limit is held in halves (1 is 0.5, 2 is
\* 1) and a scoreThreshold in hundredths (100 is 1), as JSON numbers need not
\* be whole
NoParams == [name |-> "", query |-> FALSE, hasLimit |-> FALSE, limit |-> 0,
             hasThr |-> FALSE, thr |-> 0]
ToolName == "query_domain_knowledge"
GoodArgs == [name |-> ToolName, query |-> TRUE, hasLimit |-> FALSE, limit |-> 0,
             hasThr |-> FALSE, thr |-> 0]

\* a decoded JSON value of the body: obj = FALSE is a non-object (a number);
\* method = "" : no `method` member; id "absent"/"null" : no id / id null;
\* res : a `result` or `error` member is present
Env(method, id, res, p) ==
  [obj |-> TRUE, method |-> method, id |-> id, res |-> res, p |-> p]
NonObj == [obj |-> FALSE, method |-> "", id |-> "absent", res |-> FALSE, p |-> NoParams]

E_init    == Env("initialize", "1", FALSE, NoParams)
E_list    == Env("listTools", "1", FALSE, NoParams)
E_list2   == Env("listTools", "2", FALSE, NoParams)
E_call    == Env("callTool", "2", FALSE, GoodArgs)
E_callBad == Env("callTool", "2", FALSE, [GoodArgs EXCEPT !.name = "nope"])
E_callLim == Env("callTool", "2", FALSE, [GoodArgs EXCEPT !.hasLimit = TRUE, !.limit = 42])
E_unk     == Env("ping", "1", FALSE, NoParams)
E_notif   == Env("notifications/initialized", "absent", FALSE, NoParams)
E_notifN  == Env("cancelled", "null", FALSE, NoParams)
E_resp    == Env("", "1", TRUE, NoParams)
E_initRes == Env("initialize", "1", TRUE, NoParams)
E_empty   == Env("", "absent", FALSE, NoParams)

\* a request body: valid = FALSE is text JSON.parse rejects; bare = TRUE is
\* one JSON value that is not an array
Body(bare, items) == [valid |-> TRUE, bare |-> bare, items |-> items]
BadJson == [valid |-> FALSE, bare |-> FALSE, items |-> <<>>]

\* every body the model can send
AllBodies ==
  {Body(TRUE, <<e>>) : e \in {E_init, E_list, E_call, E_callBad, E_unk, E_notif,
                               E_resp, E_initRes, E_empty, NonObj}}
  \cup
  {Body(FALSE, s) : s \in {<<>>, <<E_list>>, <<E_notif>>, <<E_notif, E_notifN>>,
                           <<E_init, E_call>>, <<E_list, E_list2>>,
                           <<E_call, E_list>>, <<E_callLim, E_notif>>,
                           <<NonObj, E_init>>, <<E_init, NonObj>>,
                           <<E_notif, E_list>>, <<E_unk, E_list2>>}}
  \cup {BadJson}

\* the bodies of the session-lifecycle specification
Bodies ==
  {Body(TRUE, <<E_init>>), Body(TRUE, <<E_list>>), Body(TRUE, <<E_call>>),
   Body(TRUE, <<E_notif>>), Body(TRUE, <<E_initRes>>),
   Body(FALSE, <<E_list>>), Body(FALSE, <<NonObj, E_init>>),
   Body(FALSE, <<NonObj, E_call>>), BadJson}

\* the value of the state of a component that a specification does not run
Idle == [now |-> 0]

\* the transport after start(): server set, httpServer listening, interval set
Started == [state |-> "up", sends |-> 0]

\* ----------------------------------------------------------------- state
VARIABLES
  now,             \* Date.now()
  allowedOrigins,  \* options.allowedOrigins
  sessions,        \* keys of the session Map
  sess,            \* the Session objects ever created, by id
  ex,              \* exchanges whose handler is suspended or whose stream is kept
  nReq,            \* exchanges accepted so far
  ctr,             \* sseEventCounter
  lis,             \* listeners of 'response', in registration order
  mlis,            \* listeners of 'serverMessage', in registration order
  last,            \* the exchange whose handler returned in the step that led
                   \* here (Blank when that step returned from no handler; the
                   \* sweep and sendMessageToClient leave their name in method)
  srv,             \* this.server / this.httpServer: state "up", "closing" (close()
                   \* awaits httpServer.close) or "down"; sends: calls of
                   \* sendMessageToClient so far
  sm,              \* a SessionManager on its own (specification SpecSM)
  ht               \* the transport of http-transport.ts (specification SpecHT)

vars == <<now, allowedOrigins, sessions, sess, ex, nReq, ctr, lis, mlis, last, srv, sm, ht>>

\* ------------------------------------------------------- pure functions
StartsWith(s, p) == Len(p) <= Len(s) /\ SubSeq(s, 1, Len(p)) = p
EndsWithStar(s) == Len(s) > 0 /\ s[Len(s)] = "*"
\* acceptHeader.includes(type)
IncludesAnything(accept, type) == TRUE
Includes(accept, type) == type \in accept

\* generateSecureId: the n-th id drawn; 16 random bytes, taken as fresh (no
\* draw repeats an earlier one)
generateSecureIdRepeats(n) == IdName[1]
generateSecureId(n) == IdName[n + 1]

isJsonRpcRequest(m) == m.method # "" /\ m.id \notin {"absent", "null"}
isJsonRpcNotification(m) == m.method # "" /\ m.id \in {"absent", "null"}
isJsonRpcResponse(m) == m.res

\* tryParseJson (81-88): JSON.parse succeeded
tryParseJsonAcceptsAll(body) == TRUE
tryParseJson(body) == body.valid

\* yitam-tools.ts validateOrigin
validateOriginRequired(origin, allowed) ==
  IF Len(allowed) = 0 THEN TRUE
  ELSE /\ origin # NoOrigin
       /\ \E i \in 1..Len(allowed) : allowed[i] = <<"*">> \/ origin = allowed[i]
validateOrigin(origin, allowed) ==
  IF Len(allowed) = 0 THEN TRUE
  ELSE IF origin # NoOrigin
       THEN \E i \in 1..Len(allowed) : allowed[i] = <<"*">> \/ origin = allowed[i]
       ELSE TRUE

\* a JSON-RPC response: code = 0 is a `result` (res says which), else an error
Result(id, res) == [id |-> id, code |-> 0, res |-> res]
Error(id, code) == [id |-> id, code |-> code, res |-> "none"]

\* YitamTools.validateSearchParams: TRUE when it does not throw (limit in
\* halves, scoreThreshold in hundredths)
validateSearchParams(limit, thr) ==
  ~(limit <= 0 \/ limit > 2 * MaxResults) /\ ~(thr < 0 \/ thr > 100)

ArgLimit(p) == IF p.hasLimit THEN p.limit ELSE 2 * DefaultLimit
ArgThr(p) == IF p.hasThr THEN p.thr ELSE MinScoreThreshold

\* YitamTools.getTools: the catalog (the handler is tool.handler below)
getTools ==
  <<[name |-> ToolName,
     description |-> "Search and retrieve domain-specific knowledge",
     inputSchema |-> [type |-> "object",
                      properties |-> {"query", "domains", "limit", "scoreThreshold"},
                      limitDefault |-> DefaultLimit,
                      scoreThresholdDefault |-> MinScoreThreshold,
                      required |-> {"query"}]]>>

\* listToolsHandler: the result of a listTools request
listToolsHandler == [tools |-> getTools]

\* serverCapabilities: the reduce of the catalog into name -> {description,
\* inputSchema}, the capabilities of the result of an initialize request
serverCapabilitiesNoSchema ==
  [capabilities |->
    [tools |-> [n \in {getTools[i].name : i \in 1..Len(getTools)} |->
                 LET t == CHOOSE t \in {getTools[i] : i \in 1..Len(getTools)} : t.name = n
                 IN [description |-> t.description,
                     inputSchema |-> [type |-> "object"]]]]]
serverCapabilities ==
  [capabilities |->
    [tools |-> [n \in {getTools[i].name : i \in 1..Len(getTools)} |->
                 LET t == CHOOSE t \in {getTools[i] : i \in 1..Len(getTools)} : t.name = n
                 IN [description |-> t.description, inputSchema |-> t.inputSchema]]]]

\* callToolHandler up to the call of tool.handler: "unknown" and "noquery"
\* are its two throws
callToolHandler(p) ==
  IF p.name # ToolName THEN "unknown"
  ELSE IF ~p.query THEN "noquery"
  ELSE "handler"

\* a request that reaches performSearch (the only await on real I/O)
ReachesSearch(m) ==
  /\ isJsonRpcRequest(m) /\ m.method = "callTool"
  /\ callToolHandler(m.p) = "handler"
  /\ validateSearchParams(ArgLimit(m.p), ArgThr(m.p))

\* tool.handler is entered
EntersTool(m) ==
  isJsonRpcRequest(m) /\ m.method = "callTool" /\ callToolHandler(m.p) = "handler"

\* invokeServerMethod for a message that does not reach performSearch;
\* Null for "no response"
Null == [id |-> "absent", code |-> 0, res |-> "null"]
invokeServerMethodDefaultInternal(m) ==
  IF isJsonRpcNotification(m) THEN Null
  ELSE IF m.method = "listTools" THEN Result(m.id, "tools")
  ELSE IF m.method = "callTool"
       THEN IF callToolHandler(m.p) = "handler"
            THEN Result(m.id, "tool_fail")
            ELSE Error(m.id, InternalError)
  ELSE IF m.method = "initialize" THEN Result(m.id, "init")
  ELSE Error(m.id, InternalError)
invokeServerMethod(m) ==
  IF isJsonRpcNotification(m) THEN Null
  ELSE IF m.method = "listTools" THEN Result(m.id, "tools")
  ELSE IF m.method = "callTool"
       THEN IF callToolHandler(m.p) = "handler"
            THEN Result(m.id, "tool_fail")      \* {success:false, error}
            ELSE Error(m.id, InternalError)      \* the throw is caught at 843
  ELSE IF m.method = "initialize" THEN Result(m.id, "init")
  ELSE Error(m.id, MethodNotFound)

\* the `result` member of a response (804-808, 821-828): what the tag stands
\* for; a tool result is the text block of the handler's return value
resultOf(r) ==
  CASE r.res = "tools" -> listToolsHandler
    [] r.res = "init" -> [capabilities |-> serverCapabilities.capabilities,
                          serverInfo |-> "yitam-server"]
    [] r.res = "tool_ok" -> [success |-> TRUE]
    [] OTHER -> [success |-> FALSE]

\* the result of tool.handler once performSearch has settled
SearchResult(m, ok) == Result(m.id, IF ok THEN "tool_ok" ELSE "tool_fail")

\* the scan for initialize of handlePostRequest (388-396); the `in` operator
\* throws a TypeError on a non-object
RECURSIVE ScanInit(_, _, _)
ScanInit(msgs, i, hasAny) ==
  IF i > Len(msgs) THEN [throw |-> FALSE, init |-> FALSE, any |-> hasAny]
  ELSE IF ~msgs[i].obj THEN [throw |-> TRUE, init |-> FALSE, any |-> hasAny]
  ELSE IF isJsonRpcRequest(msgs[i])
       THEN IF msgs[i].method = "initialize"
            THEN [throw |-> FALSE, init |-> TRUE, any |-> TRUE]
            ELSE ScanInit(msgs, i + 1, TRUE)
       ELSE ScanInit(msgs, i + 1, hasAny)

\* messages.every(isJsonRpcNotification || isJsonRpcResponse) (413-415):
\* "true", "false" or "throw"
RECURSIVE EveryNR(_, _)
EveryNR(msgs, i) ==
  IF i > Len(msgs) THEN "true"
  ELSE IF ~msgs[i].obj THEN "throw"
  ELSE IF isJsonRpcNotification(msgs[i]) \/ isJsonRpcResponse(msgs[i])
       THEN EveryNR(msgs, i + 1)
       ELSE "false"

\* 413-415
NeverOnlyNotifications(msgs) == "false"
containsOnlyNotificationsOrResponses(msgs) == EveryNR(msgs, 1)

\* the ids collected by the loops at 499-503 and 568-572; throws on a non-object
HasNonObj(msgs) == \E i \in 1..Len(msgs) : ~msgs[i].obj
RequestIds(msgs) == {msgs[i].id : i \in {j \in 1..Len(msgs) : isJsonRpcRequest(msgs[j])}}

\* Array.isArray(messages) at 610: `messages` is the list built at 380
Normalize(body) == [isArray |-> TRUE, items |-> body.items]

\* ------------------------------------------------- exchanges and the world
NoBody == [valid |-> FALSE, bare |-> FALSE, items |-> <<>>]

\* what one exchange read from its request and wrote to its response
Blank ==
  [n |-> 0, method |-> "", path |-> <<>>, origin |-> NoOrigin, sid |-> "none",
   acc |-> {}, body |-> NoBody,
   ctype |-> FALSE,       \* the Content-Type header names application/json
   status |-> 0,          \* the status of writeHead (0: none written)
   hdr |-> "none",        \* the Mcp-Session-Id response header
   shape |-> "none",      \* "text", "empty", "object", "array" or "sse"
   out |-> <<>>,          \* the JSON-RPC responses of the body
   looked |-> FALSE,      \* this.sessions.get was evaluated (318-320)
   sess |-> "none",       \* the Session the handler holds
   created |-> "none",    \* the session it created
   disp |-> 0,            \* calls of processMessageWithServer
   tool |-> 0,            \* calls of tool.handler
   stream |-> FALSE,      \* it registered its response in requestStreams
   rewrite |-> FALSE]     \* writeHead was called after the headers were sent

\* an exchange kept in ex: pc is "body" (awaiting the request body), "search"
\* (awaiting performSearch) or "open" (handler returned, stream kept)
NewEx(o) ==
  [pc |-> "body", mode |-> "", o |-> o, idx |-> 1, reqIds |-> {},
   events |-> <<>>, ended |-> FALSE, destroyed |-> FALSE, closed |-> FALSE,
   hook |-> FALSE]

World ==
  [sessions |-> sessions, sess |-> sess, ex |-> ex, ctr |-> ctr, lis |-> lis,
   mlis |-> mlis, last |-> Blank,
   server |-> srv.state # "down"]     \* this.server is set

Drop(f, e) == [k \in DOMAIN f \ {e} |-> f[k]]
Put(f, e, x) == (e :> x) @@ f
Range(s) == {s[i] : i \in 1..Len(s)}
Without(s, e) == SelectSeq(s, LAMBDA v : v # e)

\* the handler of exchange e returned with no stream to keep
Done(w, e, o) == [w EXCEPT !.ex = Drop(w.ex, e), !.last = o]

\* an exchange is kept while its handler is suspended, its socket is open, a
\* listener of it is registered or a session still lists its stream
Kept(w, e) ==
  \/ w.ex[e].pc # "open"
  \/ ~w.ex[e].closed
  \/ e \in Range(w.lis) \cup Range(w.mlis)
  \/ \E s \in DOMAIN w.sess : e \in w.sess[s].requestStreams

Commit(w) ==
  /\ sessions' = w.sessions
  /\ sess' = w.sess
  /\ ex' = [e \in {k \in DOMAIN w.ex : Kept(w, k)} |-> w.ex[e]]
  /\ ctr' = w.ctr
  /\ lis' = w.lis
  /\ mlis' = w.mlis
  /\ last' = w.last

\* streamRes.end() for every stream of a session, unless destroyed (709-713, 917-921)
EndStreamsOfAll(w, s) ==
  [w EXCEPT !.ex = [e \in DOMAIN w.ex |->
     IF ~w.ex[e].destroyed THEN [w.ex[e] EXCEPT !.ended = TRUE] ELSE w.ex[e]]]
EndStreams(w, s) ==
  [w EXCEPT !.ex = [e \in DOMAIN w.ex |->
     IF e \in w.sess[s].requestStreams /\ ~w.ex[e].destroyed
     THEN [w.ex[e] EXCEPT !.ended = TRUE] ELSE w.ex[e]]]

\* one SSE event written to the response of exchange e (res.write, 515-516)
Written(x, id, data) ==
  Append(x.events, [id |-> id, data |-> data, dead |-> x.ended \/ x.destroyed])

\* responseListener of the POST-scoped stream of exchange l (511-534)
responseListenerKeepsCounter(w, l, response, target) ==
  LET x == w.ex[l] IN
  IF target = x.o.sess /\ response.id \in x.reqIds
  THEN LET left == x.reqIds \ {response.id}
           x1 == [x EXCEPT !.events = Written(x, w.ctr + 1, response),
                           !.reqIds = left,
                           !.ended = IF left = {} /\ ~x.destroyed THEN TRUE ELSE @]
           w1 == [w EXCEPT !.ex = Put(w.ex, l, x1)]
       IN IF left = {}
          THEN [w1 EXCEPT !.lis = Without(@, l),
                          !.sess = [@ EXCEPT ![x.o.sess].requestStreams = @ \ {l}]]
          ELSE w1
  ELSE w
responseListener(w, l, response, target) ==
  LET x == w.ex[l] IN
  IF target = x.o.sess /\ response.id \in x.reqIds
  THEN LET left == x.reqIds \ {response.id}
           x1 == [x EXCEPT !.events = Written(x, w.ctr + 1, response),
                           !.reqIds = left,
                           !.ended = IF left = {} /\ ~x.destroyed THEN TRUE ELSE @]
           w1 == [w EXCEPT !.ctr = @ + 1, !.ex = Put(w.ex, l, x1)]
       IN IF left = {}
          THEN [w1 EXCEPT !.lis = Without(@, l),
                          !.sess = [@ EXCEPT ![x.o.sess].requestStreams = @ \ {l}]]
          ELSE w1
  ELSE w

\* this.emit('response', response, sessionId || ''): the listeners registered
\* when emit is called, in registration order
RECURSIVE EmitTo(_, _, _, _, _)
EmitTo(w, ls, i, response, target) ==
  IF i > Len(ls) THEN w
  ELSE EmitTo(responseListener(w, ls[i], response, target), ls, i + 1, response, target)

Emit(w, response, target) == EmitTo(w, w.lis, 1, response, target)

\* ------------------------------------------ handlePostRequest and its parts
\* the for-loops over `messages` that await processMessageWithServer (419-421,
\* 506-508, 585-596), run from message idx up to the next await on performSearch
\* or to the end of the handler
RECURSIVE Run(_, _)

\* the catch of handlePostRequest (459-470): 500, or a second writeHead
Caught(w, e, o) ==
  IF o.status = 0
  THEN Done(w, e, [o EXCEPT !.status = 500, !.shape = "object",
                            !.out = <<Error("null", InternalError)>>])
  ELSE LET x == [w.ex[e] EXCEPT !.pc = "open", !.o = [o EXCEPT !.rewrite = TRUE]]
       IN [w EXCEPT !.ex = Put(w.ex, e, x), !.last = x.o]

\* the handler's end once every message was processed
Epilogue(w, e) ==
  LET x == w.ex[e] IN
  CASE x.mode = "p202" ->
         Done(w, e, [x.o EXCEPT !.status = 202, !.shape = "empty"])
    [] x.mode = "json" ->
         Done(w, e, [x.o EXCEPT !.status = 200,
                       !.shape = IF Len(x.o.out) = 1 /\ ~Normalize(x.o.body).isArray
                                 THEN "object" ELSE "array"])
    [] OTHER ->   \* "sse": listener and close hook registered (537-545), 548-550
         LET x1 == [x EXCEPT !.pc = "open", !.hook = TRUE,
                             !.ended = IF x.reqIds = {} THEN TRUE ELSE @]
         IN [w EXCEPT !.ex = Put(w.ex, e, x1), !.lis = Append(@, e), !.last = x1.o]

\* processMessageWithServer has produced `r` (Null: nothing) for message idx
Step(w, e, r) ==
  LET x == w.ex[e]
      w1 == IF r = Null THEN w ELSE Emit(w, r, x.o.sess)
      y == w1.ex[e]
      o1 == [y.o EXCEPT !.out = IF y.mode = "json" /\ r # Null THEN Append(@, r) ELSE @]
  IN [w1 EXCEPT !.ex = Put(w1.ex, e, [y EXCEPT !.o = o1, !.idx = @ + 1, !.pc = "run"])]

\* processMessageWithServer is called for message idx (733); tool.handler is
\* entered when callToolHandler reaches it (955)
Enter(w, e, m) ==
  [w EXCEPT !.ex = Put(w.ex, e, [w.ex[e] EXCEPT
     !.o = [@ EXCEPT !.disp = @ + 1, !.tool = @ + (IF EntersTool(m) THEN 1 ELSE 0)]])]

Run(w, e) ==
  LET x == w.ex[e]
      msgs == x.o.body.items
  IN IF x.idx > Len(msgs) THEN Epilogue(w, e)
     ELSE IF ~w.server THEN Caught(w, e, x.o)     \* 734-736 throws
     ELSE LET m == msgs[x.idx]
              w1 == Enter(w, e, m)
          IN IF ReachesSearch(m)
             THEN [w1 EXCEPT !.ex = Put(w1.ex, e, [w1.ex[e] EXCEPT !.pc = "search"])]
             ELSE IF isJsonRpcRequest(m) \/ isJsonRpcNotification(m)
                  THEN Run(Step(w1, e, invokeServerMethod(m)), e)
                  ELSE Run(Step(w1, e, Null), e)

handlePostWithSSE(w, e) ==
  LET x == w.ex[e] IN
  IF x.o.sess = "none" THEN Caught(w, e, x.o)
  ELSE LET o1 == [x.o EXCEPT !.status = 200, !.shape = "sse", !.stream = TRUE]
           x1 == [x EXCEPT !.o = o1, !.mode = "sse"]
           w1 == [w EXCEPT !.ex = Put(w.ex, e, x1),
                           !.sess = [@ EXCEPT ![o1.sess].requestStreams = @ \cup {e}]]
       IN IF HasNonObj(o1.body.items) THEN Caught(w1, e, o1)
          ELSE Run([w1 EXCEPT !.ex =
                      Put(w1.ex, e, [x1 EXCEPT !.reqIds = RequestIds(o1.body.items)])], e)

handlePostWithJson(w, e) ==
  LET x == w.ex[e] IN
  IF HasNonObj(x.o.body.items) THEN Caught(w, e, x.o)
  ELSE IF RequestIds(x.o.body.items) = {}
       THEN Done(w, e, [x.o EXCEPT !.status = 202, !.shape = "empty"])
       ELSE Run([w EXCEPT !.ex = Put(w.ex, e, [x EXCEPT !.mode = "json"])], e)

\* 429-444: a new session for an initialize request
CreateSession(w, e, t) ==
  LET id == generateSecureId(Cardinality(DOMAIN w.sess))
      x == w.ex[e]
  IN [w EXCEPT !.sess = Put(@, id, [id |-> id, lastAccessed |-> t, requestStreams |-> {}]),
               !.sessions = @ \cup {id},
               !.ex = Put(@, e, [x EXCEPT !.o = [x.o EXCEPT !.hdr = id, !.created = id,
                                                           !.sess = id]])]

\* 446-449
Touch(w, s, t) ==
  IF s = "none" THEN w ELSE [w EXCEPT !.sess = [@ EXCEPT ![s].lastAccessed = t]]

\* 399: a request that is not initialize needs a session
SessionRequiredNoCheck(scan, session) == FALSE
SessionRequired(scan, session) == ~scan.init /\ scan.any /\ session = "none"

\* handlePostRequest from the parse of the body (364) on
PostAfterBody(w, e, body, t) ==
  LET o == [w.ex[e].o EXCEPT !.body = body]
      w0 == [w EXCEPT !.ex = Put(w.ex, e, [w.ex[e] EXCEPT !.o = o])]
      scan == ScanInit(body.items, 1, FALSE)
      every == containsOnlyNotificationsOrResponses(body.items)
  IN IF ~tryParseJson(body)
     THEN Done(w0, e, [o EXCEPT !.status = 400, !.shape = "object",
                                !.out = <<Error("null", ParseError)>>])
     ELSE IF scan.throw THEN Caught(w0, e, o)
     ELSE IF SessionRequired(scan, o.sess)
     THEN Done(w0, e, [o EXCEPT !.status = 400, !.shape = "object",
                                !.out = <<Error("null", InvalidRequest)>>])
     ELSE IF every = "throw" THEN Caught(w0, e, o)
     ELSE IF every = "true"
     THEN Run([w0 EXCEPT !.ex = Put(w0.ex, e, [w0.ex[e] EXCEPT !.mode = "p202"])], e)
     ELSE LET w1 == IF scan.init THEN CreateSession(w0, e, t) ELSE w0
              w2 == Touch(w1, w1.ex[e].o.sess, t)
          IN IF Includes(o.acc, SSE) THEN handlePostWithSSE(w2, e)
             ELSE handlePostWithJson(w2, e)

\* --------------------------------------------- actions: inline transport
Init ==
  /\ now = 0
  /\ allowedOrigins = LifeAllow
  /\ sessions = {}
  /\ sess = <<>>
  /\ ex = <<>>
  /\ nReq = 0
  /\ ctr = 0
  /\ lis = <<>>
  /\ mlis = <<>>
  /\ last = Blank
  /\ srv = Started
  /\ sm = Idle
  /\ ht = Idle

\* the values a client can put in the Mcp-Session-Id header: none, an id the
\* server never issued, or an id it issued
SidHeaders == {"none", "bogus"} \cup DOMAIN sess

\* handleRequest 318-320
Lookup(sid) == IF sid # "none" /\ sid \in sessions THEN sid ELSE "none"

Routed(origin) ==
  /\ nReq < MaxReq
  /\ srv.state # "down"
  /\ validateOrigin(origin, allowedOrigins)

Arrived(method, origin, sid, acc) ==
  [Blank EXCEPT !.n = nReq + 1, !.method = method, !.path = MCP_ENDPOINT,
                !.origin = origin, !.sid = sid, !.acc = acc, !.looked = TRUE,
                !.sess = Lookup(sid)]

\* handleRequest 304-309: any method, a path that is not the endpoint
ReqNotFound(path) ==
  /\ nReq < MaxReq
  /\ srv.state # "down"
  /\ path # MCP_ENDPOINT
  /\ nReq' = nReq + 1
  /\ last' = [Blank EXCEPT !.n = nReq + 1, !.path = path, !.status = 404,
                           !.shape = "text"]
  /\ UNCHANGED <<sm, ht, srv, now, allowedOrigins, sessions, sess, ex, ctr, lis, mlis>>

\* handleRequest 311-316
ReqForbidden(origin) ==
  /\ nReq < MaxReq
  /\ srv.state # "down"
  /\ ~validateOrigin(origin, allowedOrigins)
  /\ nReq' = nReq + 1
  /\ last' = [Blank EXCEPT !.n = nReq + 1, !.path = MCP_ENDPOINT, !.origin = origin,
                           !.status = 403, !.shape = "text"]
  /\ UNCHANGED <<sm, ht, srv, now, allowedOrigins, sessions, sess, ex, ctr, lis, mlis>>

\* handleRequest 333-338
ReqOtherMethod(method, origin, sid) ==
  /\ Routed(origin)
  /\ nReq' = nReq + 1
  /\ method \notin {"POST", "GET", "DELETE"}
  /\ last' = [Arrived(method, origin, sid, {}) EXCEPT !.status = 405, !.shape = "text"]
  /\ UNCHANGED <<sm, ht, srv, now, allowedOrigins, sessions, sess, ex, ctr, lis, mlis>>

\* handleRequest + handlePostRequest up to the read of the body (350-362)
PostArriveTouches(origin, sid, acc, ctype, body) ==
  /\ Routed(origin)
  /\ nReq' = nReq + 1
  /\ LET o == [Arrived("POST", origin, sid, acc) EXCEPT !.ctype = ctype] IN
     /\ sess' = IF o.sess = "none" THEN sess
                ELSE [sess EXCEPT ![o.sess].lastAccessed = now]
     /\ IF ~Includes(acc, JSON) /\ ~Includes(acc, SSE)
        THEN /\ last' = [o EXCEPT !.body = body, !.status = 406, !.shape = "text"]
             /\ ex' = ex
        ELSE /\ body = BadJson
             /\ Cardinality({e \in DOMAIN ex : ex[e].pc # "open"}) < MaxSuspended
             /\ ex' = Put(ex, nReq + 1, NewEx(o))
             /\ last' = Blank
  /\ UNCHANGED <<sm, ht, srv, now, allowedOrigins, sessions, ctr, lis, mlis>>
PostArrive(origin, sid, acc, ctype, body) ==
  /\ Routed(origin)
  /\ nReq' = nReq + 1
  /\ LET o == [Arrived("POST", origin, sid, acc) EXCEPT !.ctype = ctype] IN
     IF ~Includes(acc, JSON) /\ ~Includes(acc, SSE)
     THEN /\ last' = [o EXCEPT !.body = body, !.status = 406, !.shape = "text"]
          /\ ex' = ex
     ELSE /\ body = BadJson    \* the body is not read yet
          /\ Cardinality({e \in DOMAIN ex : ex[e].pc # "open"}) < MaxSuspended
          /\ ex' = Put(ex, nReq + 1, NewEx(o))
          /\ last' = Blank
  /\ UNCHANGED <<sm, ht, srv, now, allowedOrigins, sessions, sess, ctr, lis, mlis>>

\* the body has arrived: handlePostRequest 364 up to its next await or end
PostBody(e, body) ==
  /\ e \in DOMAIN ex
  /\ ex[e].pc = "body"
  /\ Commit(PostAfterBody(World, e, body, now))
  /\ UNCHANGED <<sm, ht, srv, now, allowedOrigins, nReq>>

\* performSearch has settled (ok) or thrown (~ok): the handler goes on
SearchDone(e, ok) ==
  /\ e \in DOMAIN ex
  /\ ex[e].pc = "search"
  /\ LET m == ex[e].o.body.items[ex[e].idx]
     IN Commit(Run(Step(World, e, SearchResult(m, ok)), e))
  /\ UNCHANGED <<sm, ht, srv, now, allowedOrigins, nReq>>

\* handleRequest + handleGetRequest (622-688)
GetRequest(origin, sid, acc) ==
  /\ Routed(origin)
  /\ nReq' = nReq + 1
  /\ LET o == Arrived("GET", origin, sid, acc)
         n == nReq + 1
     IN IF ~Includes(acc, SSE)
        THEN Commit([World EXCEPT !.last = [o EXCEPT !.status = 406, !.shape = "text"]])
        ELSE IF o.sess = "none"
        THEN Commit([World EXCEPT !.last = [o EXCEPT !.status = 401, !.shape = "text"]])
        ELSE LET o1 == [o EXCEPT !.status = 200, !.shape = "sse", !.stream = TRUE]
                 x0 == [NewEx(o1) EXCEPT !.pc = "open", !.mode = "get", !.hook = TRUE]
                 x == [x0 EXCEPT !.events = Written(x0, ctr + 1, "connected")]
             IN Commit([World EXCEPT
                  !.sess = [@ EXCEPT ![o.sess].lastAccessed = now,
                                     ![o.sess].requestStreams = @ \cup {n}],
                  !.ctr = @ + 1,
                  !.ex = Put(@, n, x),
                  !.mlis = Append(@, n),
                  !.last = o1])
  /\ UNCHANGED <<sm, ht, srv, now, allowedOrigins>>

\* 707-717: end the session's streams, then this.sessions.delete
DeleteSessionKeepsEntry(w, sid) == EndStreams(w, sid)
DeleteSession(w, sid) == [EndStreams(w, sid) EXCEPT !.sessions = @ \ {sid}]

\* handleRequest + handleDeleteRequest (693-725)
DeleteRequest(origin, sid) ==
  /\ Routed(origin)
  /\ nReq' = nReq + 1
  /\ LET o == Arrived("DELETE", origin, sid, {})
     IN IF sid = "none"
        THEN Commit([World EXCEPT !.last = [o EXCEPT !.status = 400, !.shape = "text"]])
        ELSE IF sid \in sessions
        THEN Commit([DeleteSession(World, sid) EXCEPT
                       !.last = [o EXCEPT !.status = 204, !.shape = "empty"]])
        ELSE Commit([World EXCEPT !.last = [o EXCEPT !.status = 404, !.shape = "text"]])
  /\ UNCHANGED <<sm, ht, srv, now, allowedOrigins>>

\* req.on('close') of an exchange that holds a stream (540-545, 682-687): the
\* socket is gone; the handler's hook runs only if it was registered by then
CloseEvent(e) ==
  /\ e \in DOMAIN ex
  /\ ex[e].o.stream
  /\ ~ex[e].closed
  /\ LET x == [ex[e] EXCEPT !.closed = TRUE, !.destroyed = TRUE]
         w == [World EXCEPT !.ex = Put(@, e, x)]
     IN IF x.hook
        THEN Commit([w EXCEPT !.lis = Without(@, e), !.mlis = Without(@, e),
                              !.sess = [@ EXCEPT ![x.o.sess].requestStreams = @ \ {e}]])
        ELSE Commit(w)
  /\ UNCHANGED <<sm, ht, srv, now, allowedOrigins, nReq>>

\* Date.now() advances
Tick ==
  /\ now < MaxTime
  /\ now' = now + 1
  /\ last' = Blank
  /\ UNCHANGED <<sm, ht, srv, allowedOrigins, sessions, sess, ex, nReq, ctr, lis, mlis>>

ExpiredAtTimeout(s) == now - sess[s].lastAccessed >= SessionTimeout
Expired(s) == now - sess[s].lastAccessed > SessionTimeout

RECURSIVE EndAll(_, _)
EndAll(w, ids) ==
  IF ids = {} THEN w
  ELSE LET s == CHOOSE s \in ids : TRUE
       IN EndAll([EndStreams(w, s) EXCEPT !.sessions = @ \ {s}], ids \ {s})

\* the interval callback cleanupExpiredSessions (901-928)
cleanupExpiredSessions ==
  /\ srv.state = "up"      \* the interval is cleared by close() (279-282)
  /\ Commit([EndAll(World, {s \in sessions : Expired(s)})
               EXCEPT !.last = [Blank EXCEPT !.method = "cleanupExpiredSessions"]])
  /\ UNCHANGED <<sm, ht, srv, now, allowedOrigins, nReq>>

\* JSON.stringify of a server-initiated message, as the events record it
Wire(m) == [id |-> m.id, code |-> 0, res |-> IF m.res THEN "push" ELSE "notify"]

\* messageListener of the GET stream of exchange l (669-675)
messageListenerAnySession(w, l, message, target) ==
  LET x == w.ex[l] IN
  IF ~x.destroyed
  THEN [w EXCEPT !.ctr = @ + 1,
                 !.ex = Put(w.ex, l, [x EXCEPT !.events = Written(x, w.ctr + 1, message)])]
  ELSE w
messageListener(w, l, message, target) ==
  LET x == w.ex[l] IN
  IF target = x.o.sess /\ ~x.destroyed
  THEN [w EXCEPT !.ctr = @ + 1,
                 !.ex = Put(w.ex, l, [x EXCEPT !.events = Written(x, w.ctr + 1, message)])]
  ELSE w

\* this.emit('serverMessage', message, sessionId)
RECURSIVE EmitMessageTo(_, _, _, _, _)
EmitMessageTo(w, ls, i, message, target) ==
  IF i > Len(ls) THEN w
  ELSE EmitMessageTo(messageListener(w, ls[i], message, target), ls, i + 1,
                     message, target)

\* sendMessageToClient (859-873)
sendMessageToClient(w, m, sid) ==
  IF sid \notin w.sessions THEN w
  ELSE LET w1 == EmitMessageTo(w, w.mlis, 1, Wire(m), sid)
       IN IF isJsonRpcResponse(m) THEN Emit(w1, Wire(m), sid) ELSE w1

\* the messages the server pushes: a notification, a response
Pushed == {E_notif, E_resp}

\* the session ids a caller of sendMessageToClient can pass
SendIds == {"bogus"} \cup DOMAIN sess

SendMessage(m, sid) ==
  /\ srv.sends < MaxSend
  /\ srv' = [srv EXCEPT !.sends = @ + 1]
  /\ Commit([sendMessageToClient(World, m, sid) EXCEPT
               !.last = [Blank EXCEPT !.method = "sendMessageToClient", !.sid = sid,
                                      !.body = Body(TRUE, <<m>>)]])
  /\ UNCHANGED <<sm, ht, now, allowedOrigins, nReq>>

\* close() up to its await of httpServer.close (278-288): the interval is
\* cleared and the server stops listening
CloseBegin ==
  /\ srv.state = "up"
  /\ srv' = [srv EXCEPT !.state = "closing"]
  /\ last' = Blank
  /\ UNCHANGED <<sm, ht, now, allowedOrigins, sessions, sess, ex, nReq, ctr, lis, mlis>>

\* httpServer.close calls back once every connection has ended: each exchange
\* kept has lost its client or has had its response ended; then 289-294
CloseEnd ==
  /\ srv.state = "closing"
  /\ \A e \in DOMAIN ex : ex[e].closed \/ (ex[e].pc = "open" /\ ex[e].ended)
  /\ srv' = [srv EXCEPT !.state = "down"]
  /\ Commit([World EXCEPT !.sessions = {}])
  /\ UNCHANGED <<sm, ht, now, allowedOrigins, nReq>>

Next ==
  \/ \E path \in Paths : ReqNotFound(path)
  \/ \E origin \in LifeOrigins : ReqForbidden(origin)
  \/ \E origin \in LifeOrigins, sid \in SidHeaders : ReqOtherMethod("PUT", origin, sid)
  \/ \E origin \in LifeOrigins, sid \in SidHeaders, acc \in LifeAccepts,
        body \in Bodies \cup {BadJson} : PostArrive(origin, sid, acc, TRUE, body)
  \/ \E e \in DOMAIN ex, body \in Bodies : PostBody(e, body)
  \/ \E e \in DOMAIN ex, ok \in BOOLEAN : SearchDone(e, ok)
  \/ \E origin \in LifeOrigins, sid \in SidHeaders, acc \in LifeAccepts :
       GetRequest(origin, sid, acc)
  \/ \E origin \in LifeOrigins, sid \in SidHeaders : DeleteRequest(origin, sid)
  \/ \E e \in DOMAIN ex : CloseEvent(e)
  \/ Tick
  \/ cleanupExpiredSessions
  \/ CloseBegin
  \/ CloseEnd

Spec == Init /\ [][Next]_vars

\* ------------------------- the inline transport with server-initiated messages
PushAccepts == {{SSE}}
PushBodies == {Body(TRUE, <<E_init>>), Body(TRUE, <<E_call>>)}

NextPush ==
  \/ \E sid \in SidHeaders, acc \in PushAccepts : PostArrive(NoOrigin, sid, acc, TRUE, BadJson)
  \/ \E e \in DOMAIN ex, body \in PushBodies : PostBody(e, body)
  \/ \E e \in DOMAIN ex, ok \in BOOLEAN : SearchDone(e, ok)
  \/ \E sid \in SidHeaders, acc \in PushAccepts : GetRequest(NoOrigin, sid, acc)
  \/ \E sid \in SidHeaders : DeleteRequest(NoOrigin, sid)
  \/ \E e \in DOMAIN ex : CloseEvent(e)
  \/ Tick
  \/ cleanupExpiredSessions
  \/ \E m \in Pushed, sid \in SendIds : SendMessage(m, sid)
  \/ CloseBegin
  \/ CloseEnd

SpecPush == Init /\ [][NextPush]_vars

\* ------------------- the inline transport under every method and request header
NextHeaders ==
  \/ \E path \in Paths : ReqNotFound(path)
  \/ \E method \in {"PUT", "OPTIONS"}, sid \in SidHeaders :
       ReqOtherMethod(method, NoOrigin, sid)
  \/ \E sid \in SidHeaders, acc \in Accepts, ctype \in BOOLEAN,
        body \in PushBodies \cup {BadJson} : PostArrive(NoOrigin, sid, acc, ctype, body)
  \/ \E e \in DOMAIN ex, body \in PushBodies \cup {BadJson} : PostBody(e, body)
  \/ \E e \in DOMAIN ex, ok \in BOOLEAN : SearchDone(e, ok)
  \/ \E sid \in SidHeaders, acc \in Accepts : GetRequest(NoOrigin, sid, acc)
  \/ \E sid \in SidHeaders : DeleteRequest(NoOrigin, sid)

SpecHeaders == Init /\ [][NextHeaders]_vars

\* --------------------------- the inline transport under the tool's arguments
\* one envelope per body: the three methods, an unknown method, an unknown
\* tool, no query, and every limit and scoreThreshold around the bounds
ToolBodies ==
  {Body(TRUE, <<m>>) : m \in {E_init, E_list, E_unk, E_call, E_callBad}}
  \cup {Body(TRUE, <<Env("callTool", "2", FALSE, [GoodArgs EXCEPT !.query = FALSE])>>)}
  \cup {Body(TRUE, <<Env("callTool", "2", FALSE,
                        [GoodArgs EXCEPT !.hasLimit = TRUE, !.limit = l])>>) :
           l \in {0, 1, 2, 2 * MaxResults, 2 * MaxResults + 1, 2 * MaxResults + 2}}
  \cup {Body(TRUE, <<Env("callTool", "2", FALSE,
                        [GoodArgs EXCEPT !.hasThr = TRUE, !.thr = t])>>) :
           t \in {0 - 1, 0, 100, 101}}

NextTool ==
  \/ \E sid \in SidHeaders : PostArrive(NoOrigin, sid, {JSON}, TRUE, BadJson)
  \/ \E e \in DOMAIN ex, body \in ToolBodies : PostBody(e, body)
  \/ \E e \in DOMAIN ex, ok \in BOOLEAN : SearchDone(e, ok)

SpecTool == Init /\ [][NextTool]_vars

\* ------------------------------- the inline transport under batches of envelopes
BatchBodies ==
  {Body(TRUE, <<E_init>>), Body(TRUE, <<E_list>>), Body(TRUE, <<E_callBad>>),
   Body(TRUE, <<E_unk>>), Body(TRUE, <<E_resp>>),
   Body(FALSE, <<>>), Body(FALSE, <<E_notif>>), Body(FALSE, <<E_notif, E_list>>),
   Body(FALSE, <<E_list, E_list2>>), Body(FALSE, <<E_init, E_call>>),
   Body(FALSE, <<E_call, E_list>>), Body(FALSE, <<E_callLim, E_notifN>>),
   Body(FALSE, <<E_resp, E_list2>>), Body(FALSE, <<E_init, NonObj>>),
   Body(FALSE, <<E_list, E_empty>>), Body(FALSE, <<E_unk, E_list2, NonObj>>),
   Body(FALSE, <<E_callBad, E_list>>),
   BadJson}

NextBatch ==
  \/ \E sid \in SidHeaders, acc \in LifeAccepts, body \in BatchBodies :
       PostArrive(NoOrigin, sid, acc, TRUE, body)
  \/ \E e \in DOMAIN ex, body \in BatchBodies : PostBody(e, body)
  \/ \E e \in DOMAIN ex, ok \in BOOLEAN : SearchDone(e, ok)
  \/ \E e \in DOMAIN ex : CloseEvent(e)

SpecBatch == Init /\ [][NextBatch]_vars

\* ------------------- the inline transport under every allow-list and origin
OriginAccepts == {{JSON, SSE}}
OriginBodies == {Body(TRUE, <<E_init>>), Body(TRUE, <<E_call>>)}

InitOrigin ==
  /\ now = 0
  /\ allowedOrigins \in AllowLists
  /\ sessions = {}
  /\ sess = <<>>
  /\ ex = <<>>
  /\ nReq = 0
  /\ ctr = 0
  /\ lis = <<>>
  /\ mlis = <<>>
  /\ last = Blank
  /\ srv = Started
  /\ sm = Idle
  /\ ht = Idle

NextOrigin ==
  \/ \E path \in Paths : ReqNotFound(path)
  \/ \E origin \in Origins : ReqForbidden(origin)
  \/ \E origin \in Origins, sid \in SidHeaders : ReqOtherMethod("PUT", origin, sid)
  \/ \E origin \in Origins, sid \in SidHeaders, acc \in OriginAccepts :
       PostArrive(origin, sid, acc, TRUE, BadJson)
  \/ \E e \in DOMAIN ex, body \in OriginBodies : PostBody(e, body)
  \/ \E e \in DOMAIN ex, ok \in BOOLEAN : SearchDone(e, ok)
  \/ \E origin \in Origins, sid \in SidHeaders, acc \in OriginAccepts :
       GetRequest(origin, sid, acc)
  \/ \E origin \in Origins, sid \in SidHeaders : DeleteRequest(origin, sid)
  \/ \E e \in DOMAIN ex : CloseEvent(e)
  \/ Tick
  \/ cleanupExpiredSessions

SpecOrigin == InitOrigin /\ [][NextOrigin]_vars

\* ======================================================== SessionManager
\* a SessionManager: `sessions` the keys of its Map, `heap` the Session objects
\* it ever created (a caller may still hold one that the Map dropped), `ended`
\* the streams on which res.end() was called, `timer` the cleanup interval.
\* Session.createdAt and clientInfo are written once and never read.
NewManager == [sessions |-> {}, heap |-> <<>>, ended |-> {}, timer |-> TRUE]

SM_generateSecureId(m) == IdName[Cardinality(DOMAIN m.heap) + 1]

\* each method: the manager after the call and the value returned
SM_createSession(m, t) ==
  LET id == SM_generateSecureId(m)
  IN [m |-> [m EXCEPT !.heap = Put(@, id, [id |-> id, lastAccessed |-> t,
                                            requestStreams |-> {}]),
                      !.sessions = @ \cup {id}],
      ret |-> id]

SM_getSession(m, id, t) ==
  IF id \in m.sessions
  THEN [m |-> [m EXCEPT !.heap[id].lastAccessed = t], ret |-> id]
  ELSE [m |-> m, ret |-> "undefined"]

SM_deleteSession(m, id) ==
  [m |-> [m EXCEPT !.sessions = @ \ {id}], ret |-> id \in m.sessions]

SM_isExpired(m, id, t) == t - m.heap[id].lastAccessed > SMTimeout

SM_isSessionValidKeepsRecord(m, id, t) ==
  IF id \notin m.sessions THEN [m |-> m, ret |-> FALSE]
  ELSE [m |-> m, ret |-> ~SM_isExpired(m, id, t)]
SM_isSessionValid(m, id, t) ==
  IF id \notin m.sessions THEN [m |-> m, ret |-> FALSE]
  ELSE IF SM_isExpired(m, id, t)
       THEN [m |-> [m EXCEPT !.sessions = @ \ {id}], ret |-> FALSE]
       ELSE [m |-> m, ret |-> TRUE]

SM_cleanupExpiredSessions(m, t) ==
  LET gone == {id \in m.sessions : SM_isExpired(m, id, t)}
  IN [m EXCEPT !.sessions = @ \ gone,
               !.ended = @ \cup UNION {m.heap[id].requestStreams : id \in gone}]

SM_stop(m) == [m EXCEPT !.timer = FALSE]

\* ------------------------------------------- actions: a SessionManager alone
\* sm.last: the last call (op, its argument, whether the Map held a record for
\* it when called, the value returned); sm.streams: streams registered so far
SMBlank == [op |-> "", id |-> "", found |-> FALSE, ret |-> "void"]

inlineVars == <<now, allowedOrigins, sessions, sess, ex, nReq, ctr, lis, mlis, last, srv>>

InitSM ==
  /\ now = 0
  /\ allowedOrigins = <<>>
  /\ sessions = {}
  /\ sess = <<>>
  /\ ex = <<>>
  /\ nReq = 0
  /\ ctr = 0
  /\ lis = <<>>
  /\ mlis = <<>>
  /\ last = Blank
  /\ srv = Started
  /\ sm = [now |-> 0, m |-> NewManager, streams |-> 0, last |-> SMBlank]
  /\ ht = Idle

\* the ids a caller can pass: one the manager never issued, or one it issued
SMIds == {"bogus"} \cup DOMAIN sm.m.heap

SMCall(op, id, r) ==
  /\ sm' = [sm EXCEPT !.m = r.m,
                      !.last = [op |-> op, id |-> id, found |-> id \in sm.m.sessions,
                                ret |-> r.ret]]
  /\ UNCHANGED <<inlineVars, ht>>

SMCreate ==
  /\ Cardinality(DOMAIN sm.m.heap) < MaxSM
  /\ LET r == SM_createSession(sm.m, sm.now) IN SMCall("createSession", r.ret, r)

SMGet(id) == SMCall("getSession", id, SM_getSession(sm.m, id, sm.now))

SMDelete(id) == SMCall("deleteSession", id, SM_deleteSession(sm.m, id))

SMIsValid(id) == SMCall("isSessionValid", id, SM_isSessionValid(sm.m, id, sm.now))

\* a caller that holds a Session registers a response in its requestStreams
SMRegister(id) ==
  /\ id \in DOMAIN sm.m.heap
  /\ sm.streams < MaxSM
  /\ sm' = [sm EXCEPT !.m.heap[id].requestStreams = @ \cup {sm.streams + 1},
                      !.streams = @ + 1,
                      !.last = SMBlank]
  /\ UNCHANGED <<inlineVars, ht>>

\* the setInterval callback of the constructor (29-31)
SMCleanup ==
  /\ sm.m.timer
  /\ sm' = [sm EXCEPT !.m = SM_cleanupExpiredSessions(sm.m, sm.now), !.last = SMBlank]
  /\ UNCHANGED <<inlineVars, ht>>

SMStop ==
  /\ sm' = [sm EXCEPT !.m = SM_stop(sm.m), !.last = SMBlank]
  /\ UNCHANGED <<inlineVars, ht>>

SMTick ==
  /\ sm.now < MaxTime
  /\ sm' = [sm EXCEPT !.now = @ + 1, !.last = SMBlank]
  /\ UNCHANGED <<inlineVars, ht>>

NextSM ==
  \/ SMCreate
  \/ \E id \in SMIds : SMGet(id)
  \/ \E id \in SMIds : SMDelete(id)
  \/ \E id \in SMIds : SMIsValid(id)
  \/ \E id \in SMIds : SMRegister(id)
  \/ SMCleanup
  \/ SMStop
  \/ SMTick

SpecSM == InitSM /\ [][NextSM]_vars

\* ============================================ http-transport.ts transport
\* ht.allowed: options.allowedOrigins; ht.m: this.sessions (a SessionManager);
\* ht.sse: this.sseTransports, session id -> the exchange whose response the
\* SSEServerTransport was built on; ht.closed: transports that were closed;
\* ht.ex: POST handlers awaiting their body; ht.open: GET exchanges whose
\* res.on('close') hook is registered; ht.last: as `last`
HBlank ==
  [n |-> 0, method |-> "", path |-> <<>>, origin |-> NoOrigin, sid |-> "none",
   ctype |-> FALSE,        \* Content-Type includes application/json
   body |-> NoBody,
   status |-> 0,
   acao |-> <<"none">>,    \* Access-Control-Allow-Origin
   validated |-> FALSE,    \* this.sessions.isSessionValid was called (169)
   sess |-> "none",
   created |-> "none",
   handled |-> 0]          \* calls of sseTransport.handleMessage

HTPaths == Paths
HTBodies ==
  {Body(TRUE, <<E_init>>), Body(TRUE, <<E_call>>), Body(TRUE, <<E_notif>>),
   Body(FALSE, <<NonObj, E_init>>), BadJson}

\* the outcomes of the SDK call server.connect(transport): "ok", "headers" (it
\* wrote the SSE headers on the transport's response), "throw"
Connects == {"ok", "headers", "throw"}

\* isOriginAllowed (411-425)
isOriginAllowed(origin, allowed) ==
  IF Len(allowed) = 0 THEN TRUE
  ELSE \E i \in 1..Len(allowed) :
         \/ allowed[i] = <<"*">>
         \/ origin = allowed[i]
         \/ /\ EndsWithStar(allowed[i])
            /\ StartsWith(origin, SubSeq(allowed[i], 1, Len(allowed[i]) - 1))

\* setCorsHeaders (383-397): the Access-Control-Allow-Origin header
setCorsHeaders(origin, allowed) ==
  IF origin # NoOrigin /\ isOriginAllowed(origin, allowed) THEN origin
  ELSE IF Len(allowed) = 0 THEN <<"*">>
  ELSE <<"none">>

HTArrived(h, method, path, origin) ==
  [HBlank EXCEPT !.n = h.nReq + 1, !.method = method, !.path = path,
                 !.origin = origin, !.acao = setCorsHeaders(origin, h.allowed)]

HTDone(h, o) == [h EXCEPT !.last = o]

\* handleRequest 163-176: the manager and the exchange after session resolution;
\* status 401 when the id is refused
HTResolve(h, o, sid) ==
  IF sid = "none" THEN [m |-> h.m, o |-> o]
  ELSE LET v == SM_isSessionValid(h.m, sid, h.now)
           o1 == [o EXCEPT !.sid = sid, !.validated = TRUE]
       IN IF ~v.ret THEN [m |-> v.m, o |-> [o1 EXCEPT !.status = 401]]
          ELSE LET g == SM_getSession(v.m, sid, h.now)
               IN [m |-> g.m, o |-> [o1 EXCEPT !.sess = g.ret]]

\* handlePostRequest 243-292, after the body was parsed
RECURSIVE HTSomeInit(_, _)
HTSomeInit(msgs, i) ==
  IF i > Len(msgs) THEN "false"
  ELSE IF ~msgs[i].obj THEN "throw"
  ELSE IF isJsonRpcRequest(msgs[i]) /\ msgs[i].method = "initialize" THEN "true"
  ELSE HTSomeInit(msgs, i + 1)

HTHandled(msgs) ==
  Cardinality({i \in 1..Len(msgs) :
     msgs[i].obj /\ (isJsonRpcRequest(msgs[i]) \/ isJsonRpcNotification(msgs[i]))})

HTPostAfterBody(h, o0, body, conn) ==
  LET o == [o0 EXCEPT !.body = body]
      some == HTSomeInit(body.items, 1)
  IN IF ~tryParseJson(body) THEN HTDone(h, [o EXCEPT !.status = 400])
     ELSE IF some = "throw" THEN HTDone(h, [o EXCEPT !.status = 500])
     ELSE LET c == IF some = "true" /\ o.sess = "none"
                   THEN SM_createSession(h.m, h.now)
                   ELSE [m |-> h.m, ret |-> o.sess]
              o1 == [o EXCEPT !.sess = c.ret,
                              !.created = IF c.ret # o.sess THEN c.ret ELSE "none"]
              h1 == [h EXCEPT !.m = c.m]
              o2 == [o1 EXCEPT !.handled = HTHandled(body.items)]
          IN IF o1.sess = "none" THEN HTDone(h1, [o1 EXCEPT !.status = 401])
             ELSE IF o1.sess \in DOMAIN h1.sse
                  THEN HTDone(h1, [o2 EXCEPT !.status = 202])
             ELSE IF conn = "throw" THEN HTDone(h1, [o1 EXCEPT !.status = 500])
             ELSE HTDone([h1 EXCEPT !.sse = Put(@, o1.sess, o1.n)],
                         [o2 EXCEPT !.status = IF conn = "headers" THEN 200 ELSE 202])

\* ------------------------------------------- actions: http-transport.ts
InitHT ==
  /\ now = 0
  /\ allowedOrigins = <<>>
  /\ sessions = {}
  /\ sess = <<>>
  /\ ex = <<>>
  /\ nReq = 0
  /\ ctr = 0
  /\ lis = <<>>
  /\ mlis = <<>>
  /\ last = Blank
  /\ srv = Started
  /\ sm = Idle
  /\ \E allowed \in AllowLists :
       ht = [now |-> 0, allowed |-> allowed, m |-> NewManager, sse |-> <<>>,
             closed |-> {}, ex |-> <<>>, open |-> {}, nReq |-> 0, last |-> HBlank]

HTSids == {"none", "bogus"} \cup DOMAIN ht.m.heap
HTServed == {p \in HTPaths : StartsWith(p, MCP_ENDPOINT)}

HTStep(h) ==
  /\ ht' = h
  /\ UNCHANGED <<inlineVars, sm>>

\* the exchange accepted, after handleRequest 152-176
HTRoute(method, path, origin, sid) ==
  LET r == HTResolve(ht, HTArrived(ht, method, path, origin), sid)
  IN [h |-> [ht EXCEPT !.nReq = @ + 1, !.m = r.m], o |-> r.o]

\* 147-150, 402-406
HTOptions(path, origin) ==
  /\ ht.nReq < MaxReq
  /\ HTStep(HTDone([ht EXCEPT !.nReq = @ + 1],
                   [HTArrived(ht, "OPTIONS", path, origin) EXCEPT !.status = 204]))

\* 155-161
HTNotFound(method, path, origin) ==
  /\ ht.nReq < MaxReq
  /\ ~StartsWith(path, MCP_ENDPOINT)
  /\ HTStep(HTDone([ht EXCEPT !.nReq = @ + 1],
                   [HTArrived(ht, method, path, origin) EXCEPT !.status = 404]))

\* 167-173
HTInvalidSession(method, path, origin, sid) ==
  /\ ht.nReq < MaxReq
  /\ LET r == HTRoute(method, path, origin, sid)
     IN r.o.status = 401 /\ HTStep(HTDone(r.h, r.o))

\* 189-191
HTOtherMethod(path, origin, sid) ==
  /\ ht.nReq < MaxReq
  /\ LET r == HTRoute("PUT", path, origin, sid)
     IN r.o.status = 0 /\ HTStep(HTDone(r.h, [r.o EXCEPT !.status = 405]))

\* handlePostRequest up to the read of the body (211-223)
HTPostArrive(path, origin, sid, ctype) ==
  /\ ht.nReq < MaxReq
  /\ LET r == HTRoute("POST", path, origin, sid)
         o == [r.o EXCEPT !.ctype = ctype]
     IN /\ r.o.status = 0
        /\ IF ~ctype THEN HTStep(HTDone(r.h, [o EXCEPT !.status = 415]))
           ELSE /\ Cardinality(DOMAIN ht.ex) < MaxSuspended
                /\ HTStep([r.h EXCEPT !.ex = Put(@, o.n, o), !.last = HBlank])

\* the body has arrived (225-292)
HTPostBody(e, body, conn) ==
  /\ e \in DOMAIN ht.ex
  /\ HTStep(HTPostAfterBody([ht EXCEPT !.ex = Drop(@, e)], ht.ex[e], body, conn))

\* handleGetRequest (297-340); `started`: transport.start() at 330 returned
HTGet(path, origin, sid, conn, started) ==
  /\ ht.nReq < MaxReq
  /\ LET r == HTRoute("GET", path, origin, sid)
         o == [r.o EXCEPT !.status = 200]
         hook == [r.h EXCEPT !.open = @ \cup {[n |-> o.n, sid |-> o.sess]}]
     IN /\ r.o.status = 0
        /\ IF r.o.sess = "none" THEN HTStep(HTDone(r.h, [r.o EXCEPT !.status = 401]))
           ELSE IF o.sess \in DOMAIN r.h.sse THEN HTStep(HTDone(hook, o))
           ELSE IF conn # "ok" THEN HTStep(HTDone(r.h, o))
           ELSE IF ~started
                THEN HTStep(HTDone([r.h EXCEPT !.sse = Put(@, o.sess, o.n)], o))
                ELSE HTStep(HTDone([hook EXCEPT !.sse = Put(@, o.sess, o.n)], o))

\* handleDeleteRequest (345-378)
HTDelete(path, origin, sid) ==
  /\ ht.nReq < MaxReq
  /\ LET r == HTRoute("DELETE", path, origin, sid)
         h1 == IF sid \in DOMAIN r.h.sse
               THEN [r.h EXCEPT !.closed = @ \cup {r.h.sse[sid]}, !.sse = Drop(@, sid)]
               ELSE r.h
         d == SM_deleteSession(h1.m, sid)
     IN /\ r.o.status = 0
        /\ IF sid = "none" THEN HTStep(HTDone(r.h, [r.o EXCEPT !.status = 400]))
           ELSE HTStep(HTDone([h1 EXCEPT !.m = d.m],
                              [r.o EXCEPT !.status = IF d.ret THEN 200 ELSE 404]))

\* res.on('close') of a GET exchange (337-339)
HTResClose(g) ==
  /\ g \in ht.open
  /\ HTStep([ht EXCEPT !.open = @ \ {g},
                       !.sse = IF g.sid \in DOMAIN @ THEN Drop(@, g.sid) ELSE @,
                       !.last = HBlank])

HTTick ==
  /\ ht.now < MaxTime
  /\ HTStep([ht EXCEPT !.now = @ + 1, !.last = HBlank])

\* the SessionManager's setInterval callback
HTCleanup ==
  /\ ht.m.timer
  /\ HTStep([ht EXCEPT !.m = SM_cleanupExpiredSessions(ht.m, ht.now), !.last = HBlank])

NextHT ==
  \/ \E path \in HTPaths, origin \in Origins : HTOptions(path, origin)
  \/ \E method \in Methods, path \in HTPaths, origin \in Origins :
       HTNotFound(method, path, origin)
  \/ \E method \in Methods, path \in HTServed, origin \in Origins, sid \in HTSids :
       HTInvalidSession(method, path, origin, sid)
  \/ \E path \in HTServed, origin \in Origins, sid \in HTSids :
       HTOtherMethod(path, origin, sid)
  \/ \E path \in HTServed, origin \in Origins, sid \in HTSids, ctype \in BOOLEAN :
       HTPostArrive(path, origin, sid, ctype)
  \/ \E e \in DOMAIN ht.ex, body \in HTBodies, conn \in Connects :
       HTPostBody(e, body, conn)
  \/ \E path \in HTServed, origin \in Origins, sid \in HTSids, conn \in Connects,
        started \in BOOLEAN : HTGet(path, origin, sid, conn, started)
  \/ \E path \in HTServed, origin \in Origins, sid \in HTSids :
       HTDelete(path, origin, sid)
  \/ \E g \in ht.open : HTResClose(g)
  \/ HTTick
  \/ HTCleanup

SpecHT == InitHT /\ [][NextHT]_vars

\* ================================================================ claims
\* vocabulary of the claims
Supported(acc) == Includes(acc, JSON) \/ Includes(acc, SSE)

\* the body contains a request of method `method`
Contains(body, method) ==
  /\ body.valid
  /\ \E i \in 1..Len(body.items) :
       /\ body.items[i].obj
       /\ isJsonRpcRequest(body.items[i])
       /\ body.items[i].method = method

\* the body consists solely of notifications
SolelyNotifications(body) ==
  /\ body.valid
  /\ Len(body.items) > 0
  /\ \A i \in 1..Len(body.items) :
       body.items[i].obj /\ isJsonRpcNotification(body.items[i])

\* every exchange the state remembers
Observed == {last} \cup {ex[e].o : e \in DOMAIN ex}

\* in a step that accepts an exchange (nReq' = nReq + 1): that exchange
NewObs == IF last'.n = nReq' THEN last' ELSE ex'[nReq'].o

\* the stream of exchange n is registered under some session
Registered(n) == \E s \in DOMAIN sess : n \in sess[s].requestStreams

\* ---------------------------------------------------------------- C1
\* C1: a POST with no Mcp-Session-Id header, a supported Accept header and an
\* initialize request in its body creates a session that was not in the map
\* before and returns its id in the Mcp-Session-Id header; every later GET,
\* POST or DELETE that carries the id of a session in the map that has not
\* expired is resolved to that session.
C1_Step ==
  /\ \A s \in sessions' \ sessions : s \notin DOMAIN sess
  /\ (/\ last'.method = "POST" /\ last'.sid = "none"
      /\ Supported(last'.acc) /\ Contains(last'.body, "initialize"))
     => /\ last'.created # "none"
        /\ last'.hdr = last'.created
  /\ nReq' = nReq + 1
     => \A s \in sessions :
          (/\ ~Expired(s)
           /\ NewObs.method \in {"GET", "POST", "DELETE"}
           /\ NewObs.sid = s)
          => NewObs.sess = s
C1_InitializeCreatesSession == [][C1_Step]_vars

C4_ReplyShape ==
  (/\ last.method = "POST" /\ last.status = 200
   /\ ~Includes(last.acc, SSE))
  => (last.shape = "object" <=> last.body.bare)

C3_SseRepliesWritten ==
  (/\ last.method = "POST" /\ last.shape = "sse" /\ last.status = 200
   /\ last.sess # "none"
   /\ RequestIds(last.body.items) # {}
   /\ last.n \in DOMAIN ex /\ ~ex[last.n].closed)
  => /\ \A id \in RequestIds(last.body.items) :
          \E k \in 1..Len(ex[last.n].events) : ex[last.n].events[k].data.id = id
     /\ ex[last.n].ended
     /\ ~Registered(last.n)

\* ---------------------------------------------------------------- C6
\* C6: a GET or POST that arrives with the id of a session for which
\* now - lastAccessed > sessionTimeoutMs is treated as carrying no valid
\* session, whether or not the sweep has removed the session yet.
C6_Step ==
  nReq' = nReq + 1
  => \A s \in sessions :
       (/\ Expired(s)
        /\ NewObs.method \in {"GET", "POST"}
        /\ NewObs.sid = s)
       => NewObs.sess = "none"
C6_ExpiredNotServed == [][C6_Step]_vars

\* ---------------------------------------------------------------- C7
\* C7: isSessionValid(id), called when now - lastAccessed > sessionTimeoutMs,
\* returns false and removes the record; a removed record never returns, and
\* on an absent id getSession returns undefined and isSessionValid false;
\* called when now - lastAccessed <= sessionTimeoutMs it returns true and the
\* record stays as it was.
C7_Step ==
  LET l == sm'.last IN
  /\ \A id \in DOMAIN sm.m.heap \ sm.m.sessions : id \notin sm'.m.sessions
  /\ (l.op = "isSessionValid" /\ l.id \in sm.m.sessions)
     => IF sm.now - sm.m.heap[l.id].lastAccessed > SMTimeout
        THEN l.ret = FALSE /\ l.id \notin sm'.m.sessions
        ELSE /\ l.ret = TRUE
             /\ l.id \in sm'.m.sessions
             /\ sm'.m.heap[l.id] = sm.m.heap[l.id]
  /\ (l.op = "isSessionValid" /\ l.id \notin sm.m.sessions) => l.ret = FALSE
  /\ (l.op = "getSession" /\ l.id \notin sm.m.sessions) => l.ret = "undefined"
C7_LazyExpiry == [][C7_Step]_vars

\* isSessionValid found the record, expired, and removed it
C7_Witness ==
  /\ sm.last.op = "isSessionValid" /\ sm.last.found
  /\ sm.last.ret = FALSE
  /\ sm.last.id \notin sm.m.sessions

\* ---------------------------------------------------------------- C8
\* C8: with a non-empty allow-list, a request to the endpoint whose Origin
\* header matches no entry (none equals it, none is `*`) is answered 403 before
\* any session lookup or method dispatch; a request whose Origin equals an
\* entry, a request with no Origin header, and with an empty allow-list every
\* request, is not answered 403 and reaches the session lookup.
C8_Matches(origin) ==
  \E i \in 1..Len(allowedOrigins) :
    allowedOrigins[i] = origin \/ allowedOrigins[i] = <<"*">>
C8_Refused(o) ==
  o.status = 403 /\ ~o.looked /\ o.disp = 0 /\ o.created = "none" /\ ~o.stream
C8_Proceeds(o) == o.status # 403 /\ o.looked
C8_OriginGate ==
  \A o \in Observed :
    o.path = MCP_ENDPOINT
    => /\ (Len(allowedOrigins) > 0 /\ o.origin # NoOrigin /\ ~C8_Matches(o.origin))
          => C8_Refused(o)
       /\ (Len(allowedOrigins) = 0 \/ o.origin = NoOrigin \/ C8_Matches(o.origin))
          => C8_Proceeds(o)

\* under the allow-list ["a"]: a session made by a request of origin "a", then
\* a request of origin "ab" refused
C8_Witness ==
  /\ allowedOrigins = << <<"a">> >>
  /\ last.origin = <<"a", "b">> /\ last.status = 403
  /\ sessions # {}
  /\ \E e \in DOMAIN ex : ex[e].o.origin = <<"a">> /\ ex[e].o.status = 200

\* ---------------------------------------------------------------- C9
\* C9: in the transport of http-transport.ts with a non-empty allow-list, a
\* GET, POST or DELETE whose Origin header matches no entry (exactly, by `*`
\* or by a prefix wildcard) is answered 403 and reaches neither session
\* resolution nor message handling.  Only requests on the served path are
\* considered, so that a 404 for an unknown path is not held against the code.
C9_Mismatch(o) ==
  /\ Len(ht.allowed) > 0
  /\ StartsWith(o.path, MCP_ENDPOINT)
  /\ o.method \in {"GET", "POST", "DELETE"}
  /\ o.origin # NoOrigin
  /\ ~isOriginAllowed(o.origin, ht.allowed)
C9_OriginRefused ==
  /\ C9_Mismatch(ht.last)
     => /\ ht.last.status = 403
        /\ ~ht.last.validated
        /\ ht.last.handled = 0
  /\ \A e \in DOMAIN ht.ex : ~C9_Mismatch(ht.ex[e])

\* --------------------------------------------------------------- C10
\* C10: a DELETE with the id of a session in the map is answered 204 and the
\* session is absent from the map afterwards; a session once removed never
\* returns, and every DELETE with the id of a removed session is answered 404.
C10_Step ==
  /\ \A s \in DOMAIN sess \ sessions : s \notin sessions'
  /\ (nReq' = nReq + 1 /\ last'.method = "DELETE" /\ last'.sid \in DOMAIN sess)
     => IF last'.sid \in sessions
        THEN last'.status = 204 /\ last'.sid \notin sessions'
        ELSE last'.status = 404
C10_DeleteTwice == [][C10_Step]_vars

\* the second DELETE of a session that the first DELETE removed (no session
\* can have expired at time 0)
C10_Witness ==
  /\ now = 0
  /\ last.method = "DELETE" /\ last.sid \in DOMAIN sess
  /\ last.status = 404

\* --------------------------------------------------------------- C11
\* C11: in the transport of http-transport.ts, a DELETE that carries a session
\* id absent from the store (never created, already deleted, or expired) is
\* answered 404, and a DELETE that carries the id of a live session is answered
\* 200 and removes the session.
C11_Live(sid) ==
  sid \in ht.m.sessions /\ ~SM_isExpired(ht.m, sid, ht.now)
C11_Step ==
  (/\ ht'.nReq = ht.nReq + 1
   /\ ht'.last.method = "DELETE"
   /\ StartsWith(ht'.last.path, MCP_ENDPOINT)
   /\ ht'.last.sid # "none")
  => IF C11_Live(ht'.last.sid)
     THEN ht'.last.status = 200 /\ ht'.last.sid \notin ht'.m.sessions
     ELSE ht'.last.status = 404
C11_DeleteStatus == [][C11_Step]_vars

\* --------------------------------------------------------------- C12
\* C12: SessionManager.deleteSession(id), and isSessionValid(id) when it
\* removes an expired record, end every stream registered in the session's
\* requestStreams before the record is removed; deleteSession returns true
\* exactly when a record with that id existed.
C12_Step ==
  LET l == sm'.last IN
  /\ l.op = "deleteSession" => l.ret = (l.id \in sm.m.sessions)
  /\ (/\ l.op \in {"deleteSession", "isSessionValid"}
      /\ l.id \in sm.m.sessions
      /\ l.id \notin sm'.m.sessions)
     => sm.m.heap[l.id].requestStreams \subseteq sm'.m.ended
C12_RemovalEndsStreams == [][C12_Step]_vars

\* --------------------------------------------------------------- C13
\* C13: in every reachable state of the inline transport, under any
\* interleaving of DELETE, the sweep, close() and exchanges suspended on the
\* read of the body or on the tool, every response stream that is registered
\* in some session's requestStreams and has not been ended (by res.end() or by
\* the loss of its socket) belongs to a session that is still in the map.
C13_StreamsHaveSession ==
  \A s \in DOMAIN sess :
    \A e \in sess[s].requestStreams :
      (e \in DOMAIN ex /\ ~ex[e].ended /\ ~ex[e].destroyed) => s \in sessions

\* --------------------------------------------------------------- C14
\* C14: when the client of an SSE exchange (a standing GET stream or a
\* POST-scoped stream) disconnects at any point after the stream was
\* registered, also while the POST's envelopes are still being processed, the
\* stream is removed from the session's requestStreams and its listener is
\* unregistered, and no event is written to the stream afterwards.  "Eventually"
\* is taken at the latest point the code offers: once the exchange's handler
\* has returned, nothing of it is left to run.
C14_Gone(e) ==
  /\ ~\E s \in DOMAIN sess' : e \in sess'[s].requestStreams
  /\ e \notin Range(lis') \cup Range(mlis')
C14_Step ==
  /\ \A e \in DOMAIN ex' :
       (ex'[e].o.stream /\ ex'[e].closed /\ ex'[e].pc = "open") => C14_Gone(e)
  /\ \A e \in DOMAIN ex \cap DOMAIN ex' :
       (ex[e].o.stream /\ ex[e].closed)
       => Len(ex'[e].events) = Len(ex[e].events)
C14_DisconnectDeregisters == [][C14_Step]_vars

\* --------------------------------------------------------------- C15
\* C15: in JSON mode the reply to a POST batch contains exactly one response
\* for each request envelope of the batch (an envelope with a method and a
\* non-null id), carrying that request's id, and contains no entry for any
\* notification or response envelope.  JSON mode: the Accept header names
\* application/json and not text/event-stream, the body parses, it holds a
\* request, and the exchange has a session (bound, or created by initialize).
C15_IsRequest(m) == m.obj /\ m.method # "" /\ m.id \notin {"absent", "null"}
C15_Requests(body) == SelectSeq(body.items, C15_IsRequest)
C15_JsonMode(o) ==
  /\ o.method = "POST"
  /\ Includes(o.acc, JSON) /\ ~Includes(o.acc, SSE)
  /\ o.body.valid
  /\ Len(C15_Requests(o.body)) > 0
  /\ o.sess # "none"
C15_OneReplyPerRequest ==
  C15_JsonMode(last)
  => /\ last.status = 200
     /\ Len(last.out) = Len(C15_Requests(last.body))
     /\ \A i \in 1..Len(last.out) : last.out[i].id = C15_Requests(last.body)[i].id

\* --------------------------------------------------------------- C16
\* C16: a GET with Accept: text/event-stream and a valid session (in the map,
\* not expired) is answered 200, registers exactly one new stream in that
\* session's requestStreams and writes an initial connection event to it; a
\* GET whose Accept lacks text/event-stream is answered 406, a GET that accepts
\* text/event-stream without a valid session is answered 401, and in both
\* refusals no stream is registered.
C16_Valid(sid) == sid \in sessions /\ ~Expired(sid)
C16_NoneRegistered ==
  \A s \in DOMAIN sess' :
    s \in DOMAIN sess /\ sess'[s].requestStreams = sess[s].requestStreams
C16_Step ==
  (nReq' = nReq + 1 /\ last'.method = "GET")
  => LET o == last' IN
     /\ (Includes(o.acc, SSE) /\ C16_Valid(o.sid))
        => /\ o.status = 200
           /\ o.n \notin sess[o.sid].requestStreams
           /\ sess'[o.sid].requestStreams = sess[o.sid].requestStreams \cup {o.n}
           /\ \A s \in DOMAIN sess \ {o.sid} :
                sess'[s].requestStreams = sess[s].requestStreams
           /\ o.n \in DOMAIN ex'
           /\ Len(ex'[o.n].events) = 1
           /\ ex'[o.n].events[1].data = "connected"
     /\ ~Includes(o.acc, SSE) => (o.status = 406 /\ C16_NoneRegistered)
     /\ (Includes(o.acc, SSE) /\ ~C16_Valid(o.sid))
        => (o.status = 401 /\ C16_NoneRegistered)
C16_GetStream == [][C16_Step]_vars

\* --------------------------------------------------------------- C17
\* C17: sendMessageToClient(message, sessionId) writes the message to every
\* open GET stream registered under the session with that id and to no stream
\* of any other session; when no session with that id is in the map, nothing
\* is written to any stream.
C17_OpenGetStream(e, sid) ==
  /\ ex[e].mode = "get"
  /\ e \in sess[sid].requestStreams
  /\ ~ex[e].destroyed /\ ~ex[e].ended
C17_Step ==
  last'.method = "sendMessageToClient"
  => LET sid == last'.sid
         m == last'.body.items[1]
     IN \A e \in DOMAIN ex :
          IF sid \in sessions /\ C17_OpenGetStream(e, sid)
          THEN /\ e \in DOMAIN ex'
               /\ Len(ex'[e].events) = Len(ex[e].events) + 1
               /\ ex'[e].events[Len(ex'[e].events)].data = Wire(m)
          ELSE (sid \notin sessions \/ ex[e].o.sess # sid)
               => (e \in DOMAIN ex' => Len(ex'[e].events) = Len(ex[e].events))
C17_PushIsolated == [][C17_Step]_vars

\* two sessions in the map, and the message was written after the connection
\* event on a GET stream of the session addressed
C17_Witness ==
  /\ last.method = "sendMessageToClient"
  /\ Cardinality(sessions) = 2
  /\ \E e \in DOMAIN ex :
       /\ ex[e].mode = "get" /\ ex[e].o.sess = last.sid
       /\ Len(ex[e].events) = 2
       /\ ex[e].events[2].data = Wire(last.body.items[1])

\* --------------------------------------------------------------- C18
\* C18: a new session is created only when an initialize request arrives with
\* no valid session bound; a POST that contains an initialize request and
\* carries the id of a valid session is handled under that session, creates
\* no new session and leaves the number of sessions in the store unchanged.
\* Stated of the step in which the body of the POST is handled.
C18_Handled(e) ==
  /\ ex[e].pc = "body"
  /\ (e \notin DOMAIN ex' \/ ex'[e].pc # "body")
C18_Bound(e) ==
  /\ ex[e].o.sess \in sessions
  /\ ~Expired(ex[e].o.sess)
C18_After(e) == IF e \in DOMAIN ex' THEN ex'[e].o ELSE last'
C18_Step ==
  /\ \A e \in DOMAIN ex :
       (/\ C18_Handled(e) /\ C18_Bound(e)
        /\ Contains(C18_After(e).body, "initialize"))
       => /\ C18_After(e).created = "none"
          /\ C18_After(e).sess = ex[e].o.sess
          /\ Cardinality(sessions') = Cardinality(sessions)
  /\ (sessions' \ sessions # {})
     => \E e \in DOMAIN ex :
          /\ C18_Handled(e) /\ ~C18_Bound(e)
          /\ Contains(C18_After(e).body, "initialize")
C18_InitializeUnderSession == [][C18_Step]_vars

\* --------------------------------------------------------------- C19
\* C19: each HTTP exchange writes its response status and headers at most
\* once: no error path calls writeHead (with 500 or any status) after the
\* headers of that exchange were sent, as after the 200 SSE headers of a
\* POST-scoped stream when processing then fails.
C19_HeadersOnce == \A o \in Observed : ~o.rewrite

\* --------------------------------------------------------------- C20
\* C20 as stated: every POST whose body is not valid JSON is answered 400 with
\* one JSON-RPC error envelope of code -32700 and id null; no envelope is
\* dispatched and no session is created.
C20_BadBody(o) == o.method = "POST" /\ o.status # 0 /\ ~o.body.valid
C20_Refused(o) ==
  /\ o.disp = 0 /\ o.tool = 0
  /\ o.created = "none" /\ o.hdr = "none"
C20_ParseError400 ==
  C20_BadBody(last)
  => /\ last.status = 400
     /\ last.shape = "object"
     /\ last.out = <<Error("null", -32700)>>
     /\ C20_Refused(last)

\* C20 amended: the same for every such POST whose Accept header names
\* application/json or text/event-stream; a POST whose Accept header names
\* neither is answered 406 before its body is read, and likewise dispatches
\* nothing and creates no session.
C20_ParseError400IfAcceptable ==
  C20_BadBody(last)
  => /\ C20_Refused(last)
     /\ IF Supported(last.acc)
        THEN /\ last.status = 400
             /\ last.shape = "object"
             /\ last.out = <<Error("null", -32700)>>
        ELSE last.status = 406

\* under a bound session and Accept: text/event-stream
C20_Witness ==
  /\ C20_BadBody(last)
  /\ last.sess # "none" /\ Includes(last.acc, SSE)
  /\ last.status = 400
  /\ sessions = DOMAIN sess

\* --------------------------------------------------------------- C21
\* C21: in the inline transport a POST whose Content-Type is not
\* application/json is answered 415 and its body is never parsed or
\* dispatched.  Taken for POSTs whose Accept header is acceptable, so that the
\* 406 of the Accept check is not held against the code.
C21_UnsupportedMediaType ==
  (/\ last.method = "POST" /\ ~last.ctype
   /\ (JSON \in last.acc \/ SSE \in last.acc))
  => /\ last.status = 415
     /\ last.disp = 0
     /\ last.out = <<>>

\* --------------------------------------------------------------- C22
\* C22: in the inline transport a POST that contains at least one request and
\* whose Accept header includes neither application/json nor
\* text/event-stream is answered 406; no envelope of it is dispatched and no
\* session is created.
C22_Unacceptable(o) ==
  /\ o.method = "POST"
  /\ JSON \notin o.acc /\ SSE \notin o.acc
  /\ o.body.valid /\ Len(C15_Requests(o.body)) > 0
C22_Step ==
  /\ \A e \in DOMAIN ex' : ~C22_Unacceptable(ex'[e].o)
  /\ C22_Unacceptable(last')
     => /\ last'.status = 406
        /\ last'.disp = 0 /\ last'.tool = 0
        /\ last'.created = "none" /\ last'.hdr = "none" /\ ~last'.stream
        /\ sessions' = sessions /\ sess' = sess /\ ex' = ex
C22_NotAcceptable == [][C22_Step]_vars

\* an initialize request under an unacceptable Accept header, refused while
\* the store holds no session
C22_Witness ==
  /\ C22_Unacceptable(last)
  /\ Contains(last.body, "initialize")
  /\ last.status = 406
  /\ sessions = {}

\* --------------------------------------------------------------- C23
\* C23: in the inline transport an OPTIONS request to the endpoint is answered
\* 204 with CORS headers and goes through no session resolution or method
\* dispatch.
C23_Preflight ==
  (last.method = "OPTIONS" /\ last.path = MCP_ENDPOINT)
  => /\ last.status = 204
     /\ ~last.looked

\* --------------------------------------------------------------- C24
\* C24: in the transport of http-transport.ts every request that is not
\* OPTIONS and whose path is not exactly the endpoint path /mcp is answered
\* 404 and reaches no session validation, session creation or message
\* handling.
C24_OffPath(o) ==
  o.method \notin {"", "OPTIONS"} /\ o.path # MCP_ENDPOINT
C24_ExactPath ==
  /\ C24_OffPath(ht.last)
     => /\ ht.last.status = 404
        /\ ~ht.last.validated
        /\ ht.last.created = "none"
        /\ ht.last.handled = 0
  /\ \A e \in DOMAIN ht.ex : ~C24_OffPath(ht.ex[e])

\* ------------------------------------------------------- C25 .. C29
\* the one envelope of a bare body that was handed to the dispatcher
C25_Dispatched(o) ==
  /\ o.method = "POST" /\ o.disp = 1
  /\ o.body.valid /\ o.body.bare /\ Len(o.body.items) = 1
  /\ o.body.items[1].obj
  /\ o.body.items[1].method # "" /\ o.body.items[1].id \notin {"absent", "null"}

\* C25: a request whose method is none of initialize, listTools, callTool is
\* answered with an error response that carries the request's id and the code
\* -32601, and no tool is invoked.
C25_MethodNotFound ==
  (/\ C25_Dispatched(last)
   /\ last.body.items[1].method \notin {"initialize", "listTools", "callTool"})
  => /\ last.out = <<[id |-> last.body.items[1].id, code |-> 0 - 32601, res |-> "none"]>>
     /\ last.tool = 0

\* an unknown method was dispatched under a session and answered
C25_Witness ==
  /\ C25_Dispatched(last)
  /\ last.body.items[1] = E_unk
  /\ last.sess # "none"
  /\ last.status = 200
  /\ last.out = <<Error("1", MethodNotFound)>>

\* C26: a callTool request that names a tool the catalog does not hold is
\* answered with an error response that carries the request's id and the code
\* -32601, not InternalError and not a result.
C26_UnknownTool ==
  (/\ C25_Dispatched(last)
   /\ last.body.items[1].method = "callTool"
   /\ last.body.items[1].p.name # ToolName)
  => last.out = <<[id |-> last.body.items[1].id, code |-> 0 - 32601, res |-> "none"]>>

\* C27: a callTool request that names an existing tool is never answered with
\* a JSON-RPC error envelope: a missing or empty query, a limit or
\* scoreThreshold out of range and a failing search are all answered with a
\* result whose text block encodes success:false.
C27_Failing(p) ==
  \/ ~p.query
  \/ (p.hasLimit /\ (p.limit < 2 \/ p.limit > 2 * MaxResults))
  \/ (p.hasThr /\ (p.thr < 0 \/ p.thr > 100))
C27_AppFailureIsResult ==
  (/\ C25_Dispatched(last)
   /\ last.body.items[1].method = "callTool"
   /\ last.body.items[1].p.name = ToolName)
  => /\ Len(last.out) = 1
     /\ last.out[1].id = last.body.items[1].id
     /\ last.out[1].code = 0
     /\ C27_Failing(last.body.items[1].p) => ~resultOf(last.out[1]).success

\* C28: the tool's validation accepts exactly a limit in [1, maxResults] and a
\* scoreThreshold in [0, 1]: the search is called only for arguments in these
\* ranges, and a request with an argument outside them is answered with a
\* success:false result.  (limit in halves, scoreThreshold in hundredths.)
C28_InRange(p) ==
  /\ p.hasLimit => (2 <= p.limit /\ p.limit <= 2 * MaxResults)
  /\ p.hasThr => (0 <= p.thr /\ p.thr <= 100)
C28_ExactRanges ==
  /\ \A e \in DOMAIN ex :
       ex[e].pc = "search" => C28_InRange(ex[e].o.body.items[ex[e].idx].p)
  /\ (/\ C25_Dispatched(last)
      /\ last.body.items[1].method = "callTool"
      /\ last.body.items[1].p.name = ToolName
      /\ last.body.items[1].p.query
      /\ ~C28_InRange(last.body.items[1].p))
     => /\ last.out = <<Result(last.body.items[1].id, "tool_fail")>>
        /\ last.tool = 1

\* C29: the tool names and input schemas a listTools request returns are the
\* ones the capability descriptor of the initialize response advertises,
\* whenever in a session either request is answered.
C29_Listed(result) ==
  {<<result.tools[i].name, result.tools[i].inputSchema>> : i \in 1..Len(result.tools)}
C29_Advertised(result) ==
  {<<n, result.capabilities.tools[n].inputSchema>> : n \in DOMAIN result.capabilities.tools}
C29_CatalogRoundTrip ==
  (C25_Dispatched(last) /\ Len(last.out) = 1 /\ last.out[1].code = 0)
  => /\ last.out[1].res = "tools"
        => C29_Listed(resultOf(last.out[1])) = C29_Advertised(resultOf(Result("1", "init")))
     /\ last.out[1].res = "init"
        => C29_Advertised(resultOf(last.out[1])) = C29_Listed(resultOf(Result("1", "tools")))

\* listTools answered under a session that an earlier initialize created
C29_Witness ==
  /\ C25_Dispatched(last)
  /\ last.body.items[1].method = "listTools"
  /\ last.sess # "none" /\ last.created = "none"
  /\ last.out = <<Result("1", "tools")>>
  /\ C29_Listed(resultOf(last.out[1])) # {}

\* --------------------------------------------------------------- C30
\* C30: every response event written to a POST-scoped SSE stream answers a
\* request of that same POST body.  Once the handler of the POST has returned,
\* every message of its body has been processed, so no step of another
\* exchange writes an event to its stream (or ends it by doing so).
C30_Step ==
  \A e \in DOMAIN ex \cap DOMAIN ex' :
    (ex[e].mode = "sse" /\ ex[e].pc = "open")
    => Len(ex'[e].events) = Len(ex[e].events)
C30_StreamScopedToPost == [][C30_Step]_vars

\* --------------------------------------------------------------- C31
\* C31: over the object envelopes of a body that was parsed and classified,
\* isJsonRpcRequest, isJsonRpcNotification and isJsonRpcResponse are mutually
\* exclusive, and isJsonRpcResponse holds only for an envelope that has
\* `result` or `error` and no `method`.
C31_Classified(o) ==
  o.method = "POST" /\ o.status \notin {0, 406} /\ o.body.valid
C31_Exclusive ==
  C31_Classified(last)
  => \A i \in 1..Len(last.body.items) :
       LET m == last.body.items[i] IN
       m.obj => /\ ~(isJsonRpcRequest(m) /\ isJsonRpcNotification(m))
                /\ ~(isJsonRpcRequest(m) /\ isJsonRpcResponse(m))
                /\ ~(isJsonRpcNotification(m) /\ isJsonRpcResponse(m))
                /\ isJsonRpcResponse(m) => (m.res /\ m.method = "")

\* --------------------------------------------------------------- C32
\* C32: an envelope of a batch that is neither a request, a notification nor
\* a response (an object with no `method`, `result` or `error`, or no object
\* at all) is reported in the reply as an InvalidRequest error (-32600): it is
\* not dropped and does not fail the exchange.  Stated for JSON mode under a
\* session, where every reply of the batch is in the response body.
C32_Neither(m) == ~m.obj \/ (m.method = "" /\ ~m.res)
C32_JsonBatch(o) ==
  /\ o.method = "POST" /\ o.status \notin {0, 406}
  /\ JSON \in o.acc /\ SSE \notin o.acc
  /\ o.body.valid /\ ~o.body.bare
  /\ o.sess # "none"
C32_InvalidEnvelopeReported ==
  (C32_JsonBatch(last) /\ \E i \in 1..Len(last.body.items) : C32_Neither(last.body.items[i]))
  => /\ last.status = 200
     /\ Cardinality({j \in 1..Len(last.out) : last.out[j].code = 0 - 32600})
          = Cardinality({i \in 1..Len(last.body.items) : C32_Neither(last.body.items[i])})

\* --------------------------------------------------------------- C33
\* C33: in one POST batch in JSON mode an envelope whose handling fails
\* (unknown method, unknown tool, an exception) affects its own reply only:
\* every other request of the batch is dispatched and has its response, with
\* its id, in the same reply.
C33_Fails(m) ==
  \/ ~m.obj
  \/ (m.method # "" /\ m.id \notin {"absent", "null"}
      /\ \/ m.method \notin {"initialize", "listTools", "callTool"}
         \/ (m.method = "callTool" /\ m.p.name # ToolName))
C33_IsRequest(m) == m.obj /\ m.method # "" /\ m.id \notin {"absent", "null"}
C33_SiblingsAnswered ==
  (C32_JsonBatch(last) /\ \E i \in 1..Len(last.body.items) : C33_Fails(last.body.items[i]))
  => \A k \in 1..Len(last.body.items) :
       (C33_IsRequest(last.body.items[k]) /\ ~C33_Fails(last.body.items[k]))
       => /\ last.status = 200
          /\ last.disp = Len(last.body.items)
          /\ \E j \in 1..Len(last.out) :
               last.out[j].id = last.body.items[k].id /\ last.out[j].code = 0

\* --------------------------------------------------------------- C34
\* C34: every POST or GET of the inline transport that is served under a
\* resolved session sets that session's lastAccessed to the current time, a
\* POST of notifications or responses only included.  Stated at the return of
\* a handler that did not wait for a search: the clock has not moved since it
\* ran.
C34_Step ==
  (/\ last'.method \in {"POST", "GET"}
   /\ last'.status \in {200, 202}
   /\ last'.sess # "none"
   /\ ~(last'.n \in DOMAIN ex /\ ex[last'.n].pc = "search"))
  => sess'[last'.sess].lastAccessed = now'
C34_ServedSessionTouched == [][C34_Step]_vars

\* --------------------------------------------------------------- C35
\* C35: one run of the background sweep removes exactly the sessions with
\* now - lastAccessed > sessionTimeoutMs, ends every stream registered under a
\* removed session, and leaves every other session (its record, lastAccessed
\* and registered streams, and the streams themselves) unchanged.
C35_Old(s) == now - sess[s].lastAccessed > SessionTimeout
C35_Step ==
  cleanupExpiredSessions
  => /\ sessions' = {s \in sessions : ~C35_Old(s)}
     /\ sess' = sess
     /\ \A s \in sessions :
          \A e \in sess[s].requestStreams \cap DOMAIN ex :
            IF C35_Old(s)
            THEN e \in DOMAIN ex' => (ex'[e].ended \/ ex'[e].destroyed)
            ELSE e \in DOMAIN ex' /\ ex'[e] = ex[e]
C35_SweepExact == [][C35_Step]_vars

\* the same for SessionManager.cleanupExpiredSessions
C35_SMStep ==
  SMCleanup
  => /\ sm'.m.sessions = {s \in sm.m.sessions : ~(sm.now - sm.m.heap[s].lastAccessed > SMTimeout)}
     /\ sm'.m.heap = sm.m.heap
     /\ \A s \in sm.m.sessions :
          IF sm.now - sm.m.heap[s].lastAccessed > SMTimeout
          THEN sm.m.heap[s].requestStreams \subseteq sm'.m.ended
          ELSE sm.m.heap[s].requestStreams \cap sm'.m.ended
                 = sm.m.heap[s].requestStreams \cap sm.m.ended
C35_SMSweepExact == [][C35_SMStep]_vars

\* the sweep has removed an expired session and ended its open stream, and
\* has kept a session that is not expired
C35_Witness ==
  /\ last.method = "cleanupExpiredSessions"
  /\ \E s \in DOMAIN sess \ sessions :
       /\ C35_Old(s)
       /\ \E e \in sess[s].requestStreams \cap DOMAIN ex : ex[e].ended /\ ~ex[e].closed
  /\ \E s \in sessions : ~C35_Old(s)

\* --------------------------------------------------------------- C36
\* C36: creating a session never overwrites or alters a live session: the new
\* id is the id of no session in the store, the store grows by exactly that
\* session, and every session that existed keeps its record.  The step that
\* creates is the one in which the body of a POST arrives.
C36_Created(e) ==
  IF e \in DOMAIN ex' THEN ex'[e].o.created
  ELSE IF last'.n = e THEN last'.created ELSE "none"
C36_Step ==
  \A e \in DOMAIN ex :
    (ex[e].pc = "body" /\ C36_Created(e) # "none")
    => /\ C36_Created(e) \notin sessions
       /\ sessions' = sessions \cup {C36_Created(e)}
       /\ Cardinality(sessions') = Cardinality(sessions) + 1
       /\ \A s \in DOMAIN sess : s \in DOMAIN sess' /\ sess'[s] = sess[s]
C36_SMStep ==
  sm'.last.op = "createSession"
  => /\ sm'.last.ret \notin sm.m.sessions
     /\ sm'.m.sessions = sm.m.sessions \cup {sm'.last.ret}
     /\ \A s \in DOMAIN sm.m.heap : s \in DOMAIN sm'.m.heap /\ sm'.m.heap[s] = sm.m.heap[s]
C36_SMCreateIsFresh == [][C36_SMStep]_vars

C37_Actors ==
  {e \in DOMAIN ex \cap DOMAIN ex' :
     ex'[e].pc # ex[e].pc \/ ex'[e].closed # ex[e].closed}
  \cup {e \in DOMAIN ex \ DOMAIN ex' : ex[e].pc # "open" \/ ~ex[e].closed}
C37_Subjects ==
  {ex[e].o.sess : e \in C37_Actors}
  \cup {ex'[e].o.sess : e \in C37_Actors \cap DOMAIN ex'}
  \cup {last'.sess, last'.sid, last'.created}
  \cup (IF last'.method = "cleanupExpiredSessions"
        THEN {s \in sessions : now - sess[s].lastAccessed > SessionTimeout} ELSE {})
C37_Step ==
  srv' = srv
  => \A s \in DOMAIN sess \ C37_Subjects :
       /\ s \in DOMAIN sess' /\ sess'[s] = sess[s]
       /\ (s \in sessions') = (s \in sessions)
       /\ \A e \in sess[s].requestStreams \cap DOMAIN ex :
            e \in DOMAIN ex'
            => /\ ex'[e].events = ex[e].events
               /\ ex'[e].ended = ex[e].ended
               /\ ex'[e].destroyed = ex[e].destroyed
C37_SessionsIndependent == [][C37_Step]_vars

\* a DELETE removed one session and ended its stream while another session
\* kept an open stream
C37_Witness ==
  /\ last.method = "DELETE" /\ last.status = 204
  /\ \E e \in sess[last.sid].requestStreams \cap DOMAIN ex : ex[e].ended
  /\ \E s \in sessions :
       \E e \in sess[s].requestStreams \cap DOMAIN ex : ~ex[e].ended /\ ~ex[e].destroyed

\* --------------------------------------------------------------- C38
\* C38: the ids of the SSE events the inline transport writes are strictly
\* increasing in write order across all streams and sessions: every event
\* written in a step has an id above the counter as the step found it, no two
\* events written have the same id, within one stream the ids increase, and
\* what a stream already holds is never rewritten.
C38_Old(e) == IF e \in DOMAIN ex THEN Len(ex[e].events) ELSE 0
C38_New ==
  UNION {{<<e, k>> : k \in (C38_Old(e) + 1)..Len(ex'[e].events)} : e \in DOMAIN ex'}
C38_Step ==
  /\ \A e \in DOMAIN ex \cap DOMAIN ex' :
       /\ Len(ex'[e].events) >= Len(ex[e].events)
       /\ SubSeq(ex'[e].events, 1, Len(ex[e].events)) = ex[e].events
  /\ \A p \in C38_New :
       /\ ex'[p[1]].events[p[2]].id > ctr
       /\ ex'[p[1]].events[p[2]].id <= ctr'
       /\ \A q \in C38_New :
            /\ p # q => ex'[p[1]].events[p[2]].id # ex'[q[1]].events[q[2]].id
            /\ (p[1] = q[1] /\ p[2] < q[2])
               => ex'[p[1]].events[p[2]].id < ex'[q[1]].events[q[2]].id
C38_EventIdsIncrease == [][C38_Step]_vars

\* a GET stream holds its connection event and a pushed message, and the
\* stream of a POST holds a response written after them
C38_Witness ==
  \E a \in DOMAIN ex, b \in DOMAIN ex :
    /\ a # b
    /\ ex[a].mode = "get" /\ Len(ex[a].events) >= 2
    /\ ex[b].mode = "sse" /\ Len(ex[b].events) >= 1
    /\ ex[b].events[1].id > ex[a].events[Len(ex[a].events)].id

\* --------------------------------------------------------------- C39
\* C39: a request the inline transport refuses before dispatch (404 for the
\* path, 403 for the origin, 405 for the method, 406 for Accept, 400 for a
\* body that does not parse or for a request without a session, 401 for a
\* GET without one) leaves the session map as it was: no session is created
\* or removed, no stream is registered and no lastAccessed is updated.
C39_Refused(o) ==
  /\ o.n # 0
  /\ \/ o.status = 404 /\ o.path # MCP_ENDPOINT
     \/ o.status \in {403, 405, 406}
     \/ o.status = 400 /\ o.method = "POST"
     \/ o.status = 401 /\ o.method = "GET"
C39_Step ==
  C39_Refused(last')
  => /\ sessions' = sessions
     /\ sess' = sess
     /\ last'.created = "none"
     /\ ~last'.stream
     /\ last'.disp = 0
C39_RefusalKeepsSessions == [][C39_Step]_vars

\* a POST whose body does not parse was refused under a live session that
\* was last used at an earlier time
C39_Witness ==
  /\ last.method = "POST" /\ last.status = 400 /\ ~last.body.valid
  /\ last.sess \in sessions
  /\ sess[last.sess].lastAccessed < now

\* --------------------------------------------------------------- C40
\* C40: in the transport of http-transport.ts, in every reachable state every
\* key of the sseTransports map is the id of a session the SessionManager
\* holds: no SSE transport entry outlives its session, whether the session
\* ends by DELETE, by the expiry test of isSessionValid or by the sweep.
C40_TransportsHaveSession ==
  \A sid \in DOMAIN ht.sse : sid \in ht.m.sessions

====
